---------------------------- MODULE Spec2Model ----------------------------
(***************************************************************************)
(* A model of the OWASP project finder bot (src/src/python/entry.py): the   *)
(* flowchart graph, the project matcher, the conversation store, the        *)
(* catalog cache and the search statistics, with the request handlers as    *)
(* tasks that interleave at their awaits.                                   *)
(*                                                                          *)
(* Text that the code only compares for equality (node keys, selection      *)
(* values, action ids) is a TLA+ string.  Text that the code lower-cases,   *)
(* joins or searches (a project's title, pitch, tags and type, the          *)
(* keywords) is a sequence of one-character strings.                        *)
(***************************************************************************)
EXTENDS Integers, Sequences, FiniteSets, TLC

(***************************************************************************)
(* Bounds of the model.                                                     *)
(***************************************************************************)
\* answers one walk of the flowchart may give
MaxPath == 7
\* projects in a list handed to filter_projects
MaxProjects == 3
\* requests the worker is handed in one run
MaxRequests == 4
\* times the clock advances in one run
MaxTicks == 2
MaxRepos == 3
MaxSigned == 3

(***************************************************************************)
(* Configuration constants, entry.py lines 17-21.                           *)
(***************************************************************************)
CACHE_TTL_SECONDS == 24 * 60 * 60
\* expirationTtl of a conversation record, line 369
CONVERSATION_TTL_SECONDS == 3600

VARIABLES
  now,        \* time.time(), in seconds
  ticks,      \* times the clock has advanced
  kvConv,     \* SLACK_BOT_KV: the entry "conversation:<user>" of each user
  kvCache,    \* SLACK_BOT_KV: the entry "projects:cache"
  kvStats,    \* SLACK_BOT_KV: the entry "stats:searches"
  inbox,      \* per user, the kinds of message delivered to them
  task,       \* per task, the request it handles, its position and its locals
  nReq,       \* requests handed to the worker so far
  answered,   \* history: the <<user, question, answer>> put by store_user_selection
  recent,     \* history: per user, the answer last put for each question
  wnode,      \* the flowchart walk: the key the walk stands at
  wtrail,     \* the flowchart walk: the keys it went through, in order
  gWorld,     \* the fetcher: the remote source handed to fetch_owasp_projects
  gResult,    \* the fetcher: the list fetch_owasp_projects returned
  gDone,      \* the fetcher: fetch_owasp_projects has returned
  fProjects,  \* the matcher: the project list handed to filter_projects
  fCategory,  \* the matcher: the category handed to filter_projects
  fResult,    \* the matcher: what filter_projects returned
  fDone,      \* the matcher: filter_projects has been applied
  fReply,     \* the matcher: the blocks show_matching_projects hands to send_dm
  fCount,     \* the matcher: the results_count it hands to record_search
  pLines,     \* the parser: the lines of the metadata block of the document
  pShape,     \* the parser: how the document is built around the block
  pContent,   \* the parser: the document handed to parse_index_md
  pResult,    \* the parser: what parse_index_md returned
  pDone       \* the parser: parse_index_md has been applied

workerVars == <<now, ticks, kvConv, kvCache, kvStats, inbox, task, nReq, answered, recent>>
walkVars == <<wnode, wtrail>>
filterVars == <<fProjects, fCategory, fResult, fDone, fReply, fCount>>
fetchVars == <<gWorld, gResult, gDone>>
parseVars == <<pLines, pShape, pContent, pResult, pDone>>
vars == <<now, ticks, kvConv, kvCache, kvStats, inbox, task, nReq, answered, recent,
          wnode, wtrail, fProjects, fCategory, fResult, fDone, fReply, fCount,
         gWorld, gResult, gDone, pLines, pShape, pContent, pResult, pDone>>

(***************************************************************************)
(* FLOWCHART_QUESTIONS, entry.py lines 24-72.  The emoji that start the     *)
(* button texts are left out of the texts.                                  *)
(***************************************************************************)
\* "start", lines 25-33
Node_start_Dangling ==
  [ question |-> "What type of OWASP resource are you looking for?",
    options |-> <<
      [text |-> "Security Tool", value |-> "tool", next |-> "tool_types"],
      [text |-> "Documentation/Guide", value |-> "documentation", next |-> "doc_type"],
      [text |-> "Training/Education", value |-> "training", next |-> "training_type"],
      [text |-> "Vulnerable Application (for testing)", value |-> "vulnerable_app",
       next |-> "vuln_app_type"] >> ]

Node_start_Orphaning ==
  [ question |-> "What type of OWASP resource are you looking for?",
    options |-> <<
      [text |-> "Security Tool", value |-> "tool", next |-> "tool_type"],
      [text |-> "Documentation/Guide", value |-> "documentation", next |-> "doc_type"],
      [text |-> "Training/Education", value |-> "training", next |-> "training_type"],
      [text |-> "Vulnerable Application (for testing)", value |-> "vulnerable_app",
       next |-> "training_type"] >> ]

Node_start ==
  [ question |-> "What type of OWASP resource are you looking for?",
    options |-> <<
      [text |-> "Security Tool", value |-> "tool", next |-> "tool_type"],
      [text |-> "Documentation/Guide", value |-> "documentation", next |-> "doc_type"],
      [text |-> "Training/Education", value |-> "training", next |-> "training_type"],
      [text |-> "Vulnerable Application (for testing)", value |-> "vulnerable_app",
       next |-> "vuln_app_type"] >> ]

\* "tool_type" with an option that asks the same question again
Node_tool_type_Looping ==
  [ question |-> "What kind of security tool are you looking for?",
    options |-> <<
      [text |-> "Code Analysis/SAST", value |-> "code_analysis", next |-> "end"],
      [text |-> "Web Application Testing", value |-> "web_testing", next |-> "end"],
      [text |-> "Authentication/Authorization", value |-> "auth", next |-> "end"],
      [text |-> "Security Monitoring", value |-> "monitoring", next |-> "tool_type"],
      [text |-> "Go Back", value |-> "back", next |-> "start"] >> ]

\* "tool_type", lines 34-43
Node_tool_type ==
  [ question |-> "What kind of security tool are you looking for?",
    options |-> <<
      [text |-> "Code Analysis/SAST", value |-> "code_analysis", next |-> "end"],
      [text |-> "Web Application Testing", value |-> "web_testing", next |-> "end"],
      [text |-> "Authentication/Authorization", value |-> "auth", next |-> "end"],
      [text |-> "Security Monitoring", value |-> "monitoring", next |-> "end"],
      [text |-> "Go Back", value |-> "back", next |-> "start"] >> ]

\* "doc_type", lines 44-53
Node_doc_type ==
  [ question |-> "What documentation are you interested in?",
    options |-> <<
      [text |-> "Security Standards/Checklists", value |-> "standards", next |-> "end"],
      [text |-> "Secure Development Guide", value |-> "secure_dev", next |-> "end"],
      [text |-> "Security Testing Guide", value |-> "testing_guide", next |-> "end"],
      [text |-> "Quick Reference", value |-> "cheatsheet", next |-> "end"],
      [text |-> "Go Back", value |-> "back", next |-> "start"] >> ]

\* "training_type", lines 54-62
Node_training_type ==
  [ question |-> "What kind of training are you looking for?",
    options |-> <<
      [text |-> "Hands-on Labs/CTF", value |-> "labs", next |-> "end"],
      [text |-> "Presentations/Slides", value |-> "presentations", next |-> "end"],
      [text |-> "Courses/Curriculum", value |-> "courses", next |-> "end"],
      [text |-> "Go Back", value |-> "back", next |-> "start"] >> ]

\* "vuln_app_type" with an option whose value the matcher has no keywords for
Node_vuln_app_type_Unmapped ==
  [ question |-> "What type of vulnerable application do you need?",
    options |-> <<
      [text |-> "Web Application", value |-> "vuln_web", next |-> "end"],
      [text |-> "Mobile Application", value |-> "vuln_mobile", next |-> "end"],
      [text |-> "IoT Device", value |-> "vuln_iot", next |-> "end"],
      [text |-> "Go Back", value |-> "back", next |-> "start"] >> ]

\* "vuln_app_type", lines 63-71
Node_vuln_app_type ==
  [ question |-> "What type of vulnerable application do you need?",
    options |-> <<
      [text |-> "Web Application", value |-> "vuln_web", next |-> "end"],
      [text |-> "Mobile Application", value |-> "vuln_mobile", next |-> "end"],
      [text |-> "API Security", value |-> "vuln_api", next |-> "end"],
      [text |-> "Go Back", value |-> "back", next |-> "start"] >> ]

FLOWCHART_QUESTIONS ==
  [ start |-> Node_start,
    tool_type |-> Node_tool_type,
    doc_type |-> Node_doc_type,
    training_type |-> Node_training_type,
    vuln_app_type |-> Node_vuln_app_type ]

\* the keys of the graph, the terminal marker and the start key
QuestionKeys == DOMAIN FLOWCHART_QUESTIONS
EndMarker == "end"
StartKey == "start"

\* the options of a node, in the order of the source
OptionsOf(question_key) == FLOWCHART_QUESTIONS[question_key].options

(***************************************************************************)
(* Text helpers: str.lower, " ".join, the `in` of two strings.              *)
(***************************************************************************)
ToLower ==
  [ A |-> "a", B |-> "b", C |-> "c", D |-> "d", E |-> "e", F |-> "f", G |-> "g",
    H |-> "h", I |-> "i", J |-> "j", K |-> "k", L |-> "l", M |-> "m", N |-> "n",
    O |-> "o", P |-> "p", Q |-> "q", R |-> "r", S |-> "s", T |-> "t", U |-> "u",
    V |-> "v", W |-> "w", X |-> "x", Y |-> "y", Z |-> "z" ]

LowerChar(c) == IF c \in DOMAIN ToLower THEN ToLower[c] ELSE c

Lower(s) == [i \in 1..Len(s) |-> LowerChar(s[i])]

RECURSIVE JoinFrom(_, _, _)
JoinFrom(sep, parts, i) ==
  IF i > Len(parts) THEN <<>>
  ELSE IF i = Len(parts) THEN parts[i]
  ELSE parts[i] \o sep \o JoinFrom(sep, parts, i + 1)

Join(sep, parts) == JoinFrom(sep, parts, 1)

\* kw in text : kw is a contiguous part of text (the empty kw always is)
Contains(text, kw) ==
  \E i \in 0..(Len(text) - Len(kw)) :
    \A j \in 1..Len(kw) : text[i + j] = kw[j]

\* dict.get(key, default)
Get(d, key, default) == IF key \in DOMAIN d THEN d[key] ELSE default

(***************************************************************************)
(* filter_projects, entry.py lines 470-532.                                 *)
(***************************************************************************)
category_mappings ==
  [
    code_analysis |->
      << <<"s","a","s","t">>,
         <<"c","o","d","e">>,
         <<"a","n","a","l","y","s","i","s">>,
         <<"d","e","p","e","n","d","e","n","c","y">>,
         <<"s","c","a","n","n","e","r">> >>,
    web_testing |->
      << <<"w","e","b">>,
         <<"d","a","s","t">>,
         <<"t","e","s","t","i","n","g">>,
         <<"p","r","o","x","y">>,
         <<"s","c","a","n","n","e","r">>,
         <<"z","a","p">> >>,
    auth |->
      << <<"a","u","t","h","e","n","t","i","c","a","t","i","o","n">>,
         <<"a","u","t","h","o","r","i","z","a","t","i","o","n">>,
         <<"i","d","e","n","t","i","t","y">>,
         <<"s","s","o">>,
         <<"o","a","u","t","h">> >>,
    monitoring |->
      << <<"m","o","n","i","t","o","r">>,
         <<"l","o","g","g","i","n","g">>,
         <<"d","e","t","e","c","t","i","o","n">>,
         <<"s","i","e","m">> >>,
    standards |->
      << <<"s","t","a","n","d","a","r","d">>,
         <<"c","h","e","c","k","l","i","s","t">>,
         <<"a","s","v","s">>,
         <<"m","a","s","v","s">>,
         <<"s","a","m","m">> >>,
    secure_dev |->
      << <<"d","e","v","e","l","o","p","m","e","n","t">>,
         <<"s","e","c","u","r","e"," ","c","o","d","i","n","g">>,
         <<"s","e","c","u","r","i","t","y"," ","g","u","i","d","e">> >>,
    testing_guide |->
      << <<"t","e","s","t","i","n","g"," ","g","u","i","d","e">>,
         <<"p","e","n","t","e","s","t">>,
         <<"w","s","t","g">> >>,
    cheatsheet |->
      << <<"c","h","e","a","t">>,
         <<"r","e","f","e","r","e","n","c","e">>,
         <<"q","u","i","c","k">> >>,
    labs |->
      << <<"l","a","b">>,
         <<"c","t","f">>,
         <<"c","h","a","l","l","e","n","g","e">>,
         <<"v","u","l","n","e","r","a","b","l","e">>,
         <<"j","u","i","c","e"," ","s","h","o","p">>,
         <<"w","e","b","g","o","a","t">> >>,
    presentations |->
      << <<"p","r","e","s","e","n","t","a","t","i","o","n">>,
         <<"s","l","i","d","e">>,
         <<"t","a","l","k">> >>,
    courses |->
      << <<"c","o","u","r","s","e">>,
         <<"c","u","r","r","i","c","u","l","u","m">>,
         <<"t","r","a","i","n","i","n","g">> >>,
    vuln_web |->
      << <<"v","u","l","n","e","r","a","b","l","e">>,
         <<"i","n","s","e","c","u","r","e">>,
         <<"w","e","b"," ","a","p","p","l","i","c","a","t","i","o","n">>,
         <<"j","u","i","c","e"," ","s","h","o","p">>,
         <<"w","e","b","g","o","a","t">> >>,
    vuln_mobile |->
      << <<"m","o","b","i","l","e">>,
         <<"a","n","d","r","o","i","d">>,
         <<"i","o","s">>,
         <<"m","s","t","g">> >>,
    vuln_api |->
      << <<"a","p","i">>,
         <<"r","e","s","t">>,
         <<"g","r","a","p","h","q","l">> >>
  ]

ToolCategories == {"code_analysis", "web_testing", "auth", "monitoring"}
DocCategories == {"standards", "secure_dev", "testing_guide", "cheatsheet"}
TrainingCategories == {"labs", "presentations", "courses"}
VulnCategories == {"vuln_web", "vuln_mobile", "vuln_api"}

\* the keys of a project record that the code names
K_title == <<"t","i","t","l","e">>
K_pitch == <<"p","i","t","c","h">>
K_tags == <<"t","a","g","s">>
K_type == <<"t","y","p","e">>
K_level == <<"l","e","v","e","l">>
K_repo == <<"r","e","p","o">>
K_url == <<"u","r","l">>
K_github_url == <<"g","i","t","h","u","b","_","u","r","l">>
K_stars == <<"s","t","a","r","s">>

\* lines 499-502: the lower-cased "title pitch tags type" text of a project
Searchable(project) ==
  Lower(Get(project, K_title, <<>>) \o <<" ">> \o Get(project, K_pitch, <<>>) \o <<" ">>
        \o Join(<<" ">>, Get(project, K_tags, <<>>)) \o <<" ">>
        \o Get(project, K_type, <<>>))

\* lines 510-513: the first keyword found in the text appends the project once
AnyKeyword(keywords, searchable) ==
  \E n \in 1..Len(keywords) : Contains(searchable, keywords[n])

\* the type of the project is not looked at: a keyword is enough
ProjectMatches_AnyType(project, category, keywords) ==
  AnyKeyword(keywords, Searchable(project))

\* lines 505-530: the branch of the category decides which types may match
ProjectMatches(project, category, keywords) ==
  LET searchable == Searchable(project)
      project_type == Lower(Get(project, K_type, <<>>))
  IN  IF category \in ToolCategories
        THEN project_type = <<"t","o","o","l">> /\ AnyKeyword(keywords, searchable)
      ELSE IF category \in DocCategories
        THEN project_type \in {<<"d","o","c","u","m","e","n","t","a","t","i","o","n">>, <<"s","t","a","n","d","a","r","d">>}
             /\ AnyKeyword(keywords, searchable)
      ELSE IF category \in TrainingCategories
        THEN AnyKeyword(keywords, searchable)
      ELSE IF category \in VulnCategories
        THEN project_type \in {<<"t","o","o","l">>, <<"c","o","d","e">>} /\ AnyKeyword(keywords, searchable)
      ELSE FALSE

\* each match is put in front of the matches found before it
RECURSIVE FilterLoop_Prepend(_, _, _, _, _)
FilterLoop_Prepend(projects, category, keywords, i, matching) ==
  IF i > Len(projects) THEN matching
  ELSE FilterLoop_Prepend(projects, category, keywords, i + 1,
                          IF ProjectMatches(projects[i], category, keywords)
                            THEN <<projects[i]>> \o matching
                            ELSE matching)

\* lines 497-532: the loop over the projects, appending each match
RECURSIVE FilterLoop(_, _, _, _, _)
FilterLoop(projects, category, keywords, i, matching) ==
  IF i > Len(projects) THEN matching
  ELSE FilterLoop(projects, category, keywords, i + 1,
                  IF ProjectMatches(projects[i], category, keywords)
                    THEN Append(matching, projects[i])
                    ELSE matching)

\* the helper of the tests (test_bot.py line 253) returns [] for a category
\* that has no keywords
filter_projects_EmptyOnUnknown(projects, category) ==
  LET keywords == Get(category_mappings, category, <<>>)
  IN  IF keywords = <<>> THEN <<>>
      ELSE FilterLoop(projects, category, keywords, 1, <<>>)

filter_projects(projects, category) ==
  LET keywords == Get(category_mappings, category, <<>>)
  IN  IF keywords = <<>> THEN projects
      ELSE FilterLoop(projects, category, keywords, 1, <<>>)

(***************************************************************************)
(* parse_index_md, entry.py lines 705-742.  A document is a sequence of     *)
(* characters; the result is None or the metadata dict, here a record       *)
(* [found, metadata] whose metadata maps each key (a text) to its value.    *)
(***************************************************************************)
Whitespace == {" ", "\n", "\t", "\r"}
Digits == {"0", "1", "2", "3", "4", "5", "6", "7", "8", "9"}
DigitValue == [d \in Digits |-> CHOOSE n \in 0..9 : <<"0", "1", "2", "3", "4", "5", "6", "7", "8", "9">>[n + 1] = d]

\* s.startswith(prefix)
StartsWith(s, prefix) ==
  /\ Len(s) >= Len(prefix)
  /\ \A j \in 1..Len(prefix) : s[j] = prefix[j]

\* s.find(pat, start): the lowest 0-based index at or after start where pat
\* is found in s, or -1
Find(s, pat, start) ==
  LET hits == {i \in start..(Len(s) - Len(pat)) : \A j \in 1..Len(pat) : s[i + j] = pat[j]}
  IN  IF hits = {} THEN -1 ELSE CHOOSE i \in hits : \A k \in hits : i <= k

\* s[a:b] for 0 <= a, 0-based and half-open
Slice(s, a, b) == SubSeq(s, a + 1, IF b > Len(s) THEN Len(s) ELSE b)

\* s.lstrip(): the white space at the end stays
Strip_Leading(s) ==
  LET keep == {i \in 1..Len(s) : s[i] \notin Whitespace}
  IN  IF keep = {} THEN <<>>
      ELSE SubSeq(s, CHOOSE i \in keep : \A k \in keep : i <= k, Len(s))

\* s.strip()
Strip(s) ==
  LET keep == {i \in 1..Len(s) : s[i] \notin Whitespace}
  IN  IF keep = {} THEN <<>>
      ELSE SubSeq(s, CHOOSE i \in keep : \A k \in keep : i <= k,
                     CHOOSE i \in keep : \A k \in keep : i >= k)

\* s.split(sep) for a one-character sep: the parts between the seps, in order
RECURSIVE Split(_, _)
Split(s, sep) ==
  LET at == Find(s, <<sep>>, 0)
  IN  IF at = -1 THEN <<s>>
      ELSE <<Slice(s, 0, at)>> \o Split(Slice(s, at + 1, Len(s)), sep)

\* int(value) of a stripped text: an optional sign, then digits, single
\* underscores allowed between digits.  [ok, n]; ok is FALSE for ValueError
RECURSIVE DigitsValue(_, _)
DigitsValue(ds, acc) ==
  IF ds = <<>> THEN acc
  ELSE IF Head(ds) = "_" THEN DigitsValue(Tail(ds), acc)
  ELSE DigitsValue(Tail(ds), 10 * acc + DigitValue[Head(ds)])

ParseInt(value) ==
  LET signed == value # <<>> /\ Head(value) \in {"+", "-"}
      body == IF signed THEN Tail(value) ELSE value
      wellFormed ==
        /\ body # <<>>
        /\ \A i \in 1..Len(body) : body[i] \in Digits \cup {"_"}
        /\ body[1] # "_" /\ body[Len(body)] # "_"
        /\ \A i \in 1..(Len(body) - 1) : ~(body[i] = "_" /\ body[i + 1] = "_")
  IN  IF ~wellFormed THEN [ok |-> FALSE, n |-> 0]
      ELSE [ok |-> TRUE,
            n |-> IF signed /\ Head(value) = "-" THEN 0 - DigitsValue(body, 0)
                  ELSE DigitsValue(body, 0)]

\* [v.strip() for v in value.split(",")]
StripAll(parts) == [i \in 1..Len(parts) |-> Strip(parts[i])]

\* lines 721-740: one line of the front matter put into the metadata
ParseLine(metadata, rawLine) ==
  LET line == Strip(rawLine)
      colon == Find(line, <<":">>, 0)
      key == Strip(Slice(line, 0, colon))
      value == Strip(Slice(line, colon + 1, Len(line)))
      parsed ==
        IF key = <<"t","a","g","s">>
          THEN (IF value # <<>> THEN StripAll(Split(value, ",")) ELSE <<>>)
        ELSE IF key = <<"l","e","v","e","l">>
          THEN (IF ParseInt(value).ok THEN ParseInt(value).n ELSE 0)
        ELSE value
  IN  IF colon = -1 THEN metadata
      ELSE (key :> parsed) @@ metadata

RECURSIVE ParseLines(_, _, _)
ParseLines(metadata, lines, i) ==
  IF i > Len(lines) THEN metadata
  ELSE ParseLines(ParseLine(metadata, lines[i]), lines, i + 1)

\* the None of Python, and a returned dict
NoMetadata == [found |-> FALSE, metadata |-> <<>>]
SomeMetadata(metadata) == [found |-> TRUE, metadata |-> metadata]

\* a block without its closing delimiter is taken to run to the end
parse_index_md_ToTheEnd(content) ==
  IF ~StartsWith(content, <<"-","-","-">>) THEN NoMetadata
  ELSE LET found == Find(content, <<"-","-","-">>, 3)
           end_index == IF found = -1 THEN Len(content) ELSE found
           frontmatter == Strip(Slice(content, 3, end_index))
           metadata == ParseLines(<<>>, Split(frontmatter, "\n"), 1)
       IN  IF Get(metadata, <<"t","i","t","l","e">>, <<>>) # <<>>
             THEN SomeMetadata(metadata)
             ELSE NoMetadata

parse_index_md(content) ==
  IF ~StartsWith(content, <<"-","-","-">>) THEN NoMetadata
  ELSE LET end_index == Find(content, <<"-","-","-">>, 3)
       IN  IF end_index = -1 THEN NoMetadata
           ELSE LET frontmatter == Strip(Slice(content, 3, end_index))
                    metadata == ParseLines(<<>>, Split(frontmatter, "\n"), 1)
                IN  IF Get(metadata, <<"t","i","t","l","e">>, <<>>) # <<>>
                      THEN SomeMetadata(metadata)
                      ELSE NoMetadata

(***************************************************************************)
(* fetch_owasp_projects, entry.py lines 645-703.  The remote source is a    *)
(* world: per organization the answer to the repository listing and, per    *)
(* repository and branch, the answer to the request for index.md.  An       *)
(* answer either raises or has a status and a body.                         *)
(***************************************************************************)
GITHUB_ORGS == <<<<"O","W","A","S","P">>>>

Raises == [outcome |-> "raises"]
Answer(status, body) == [outcome |-> "ok", status |-> status, body |-> body]

\* s.replace(old, "") for a non-empty old
RECURSIVE Remove(_, _)
Remove(s, old) ==
  LET at == Find(s, old, 0)
  IN  IF at = -1 THEN s
      ELSE Slice(s, 0, at) \o Remove(Slice(s, at + Len(old), Len(s)), old)

\* lines 671-697: one repository of the listing; the projects so far with
\* the repository's record appended, or unchanged when it is skipped
FetchRepo(projects, org, docs, repo) ==
  LET repo_name == Get(repo, "name", <<>>)
      main == Get(docs, <<repo_name, "main">>, Raises)
      master == Get(docs, <<repo_name, "master">>, Raises)
      index_response ==
        IF main.outcome = "ok" /\ main.status # 200 THEN master ELSE main
      parsed == parse_index_md(index_response.body)
      metadata ==
        (K_stars :> Get(repo, "stargazers_count", 0))
        @@ (K_github_url :> <<"h","t","t","p","s",":","/","/","g","i","t","h","u","b",".","c","o","m","/">> \o org \o <<"/">> \o repo_name)
        @@ (K_url :> <<"h","t","t","p","s",":","/","/","o","w","a","s","p",".","o","r","g","/">> \o Remove(repo_name, <<"w","w","w","-">>) \o <<"/">>)
        @@ (K_repo :> repo_name)
        @@ parsed.metadata
  IN  IF ~StartsWith(repo_name, <<"w","w","w","-","p","r","o","j","e","c","t","-">>) THEN projects
      ELSE IF index_response.outcome = "raises" THEN projects
      ELSE IF index_response.status # 200 THEN projects
      ELSE IF ~parsed.found THEN projects
      ELSE Append(projects, metadata)

\* the scan of the organization stops at the first repository that gives
\* no record
RECURSIVE FetchRepos_StopAtSkip(_, _, _, _, _)
FetchRepos_StopAtSkip(projects, org, docs, repos, i) ==
  IF i > Len(repos) THEN projects
  ELSE IF FetchRepo(projects, org, docs, repos[i]) = projects THEN projects
  ELSE FetchRepos_StopAtSkip(FetchRepo(projects, org, docs, repos[i]), org, docs, repos, i + 1)

\* lines 665-697: the loop over the repositories of the listing
RECURSIVE FetchRepos(_, _, _, _, _)
FetchRepos(projects, org, docs, repos, i) ==
  IF i > Len(repos) THEN projects
  ELSE FetchRepos(FetchRepo(projects, org, docs, repos[i]), org, docs, repos, i + 1)

\* lines 650-701: one organization; a listing that raises or is not a 200
\* leaves the projects as they are
FetchOrg(projects, world, org) ==
  LET listing == Get(world, org, [listing |-> Raises, docs |-> <<>>]).listing
      docs == Get(world, org, [listing |-> Raises, docs |-> <<>>]).docs
  IN  IF listing.outcome = "raises" THEN projects
      ELSE IF listing.status # 200 THEN projects
      ELSE FetchRepos(projects, org, docs, listing.body, 1)

RECURSIVE FetchOrgs(_, _, _)
FetchOrgs(projects, world, i) ==
  IF i > Len(GITHUB_ORGS) THEN projects
  ELSE FetchOrgs(FetchOrg(projects, world, GITHUB_ORGS[i]), world, i + 1)

fetch_owasp_projects(world) == FetchOrgs(<<>>, world, 1)

(***************************************************************************)
(* The remote worlds of the model.                                          *)
(***************************************************************************)
Doc_Zap == <<"-","-","-","\n","t","i","t","l","e",":"," ","Z","A","P","\n","t","y","p","e",":"," ","t","o","o","l","\n","p","i","t","c","h",":"," ","W","e","b"," ","p","r","o","x","y","\n","-","-","-","\n","#"," ","Z","A","P">>
Doc_Asvs == <<"-","-","-","\n","t","i","t","l","e",":"," ","A","S","V","S","\n","t","y","p","e",":"," ","s","t","a","n","d","a","r","d","\n","l","e","v","e","l",":"," ","4","\n","t","a","g","s",":"," ","a","s","v","s",","," ","c","h","e","c","k","l","i","s","t","\n","-","-","-">>
Doc_NoFrontMatter == <<"#"," ","N","o","t","h","i","n","g"," ","h","e","r","e">>

Repo_Zap == [name |-> <<"w","w","w","-","p","r","o","j","e","c","t","-","z","a","p">>, stargazers_count |-> 12]
Repo_Asvs == [name |-> <<"w","w","w","-","p","r","o","j","e","c","t","-","a","s","v","s">>, stargazers_count |-> 7]
Repo_Bad == [name |-> <<"w","w","w","-","p","r","o","j","e","c","t","-","b","a","d">>, stargazers_count |-> 1]
Repo_Site == [name |-> <<"o","w","a","s","p",".","g","i","t","h","u","b",".","i","o">>, stargazers_count |-> 3]

RemoteDocs ==
  (<<Repo_Zap.name, "main">> :> Answer(200, Doc_Zap))
  @@ (<<Repo_Asvs.name, "main">> :> Answer(404, <<>>))
  @@ (<<Repo_Asvs.name, "master">> :> Answer(200, Doc_Asvs))
  @@ (<<Repo_Bad.name, "main">> :> Answer(200, Doc_NoFrontMatter))
  @@ (<<Repo_Site.name, "main">> :> Answer(200, Doc_Zap))

\* the states the remote source may be in at a fetch, by name
RemoteWorlds ==
  [ full |-> (<<"O","W","A","S","P">> :> [listing |-> Answer(200, <<Repo_Zap, Repo_Site, Repo_Asvs>>),
                              docs |-> RemoteDocs]),
    partial |-> (<<"O","W","A","S","P">> :> [listing |-> Answer(200, <<Repo_Bad, Repo_Asvs>>),
                                 docs |-> RemoteDocs]),
    down |-> (<<"O","W","A","S","P">> :> [listing |-> Answer(403, <<>>), docs |-> RemoteDocs]) ]

(***************************************************************************)
(* Project records as parse_index_md and fetch_owasp_projects build them    *)
(* (lines 687-694, 719-742): a dict from the keys of the front matter, and  *)
(* repo, url, github_url and stars, to their values.  Only title is always  *)
(* there.                                                                   *)
(***************************************************************************)
P_TestTool ==
  (K_title :> <<"T","e","s","t"," ","T","o","o","l">>) @@ (K_type :> <<"t","o","o","l">>)
  @@ (K_pitch :> <<"A"," ","c","o","d","e"," ","a","n","a","l","y","s","i","s"," ","t","o","o","l">>) @@ (K_tags :> <<>>)
P_TestDoc ==
  (K_title :> <<"T","e","s","t"," ","D","o","c">>) @@ (K_type :> <<"d","o","c","u","m","e","n","t","a","t","i","o","n">>)
  @@ (K_pitch :> <<"A"," ","g","u","i","d","e">>) @@ (K_tags :> <<>>)
P_Standard ==
  (K_title :> <<"S","e","c","u","r","i","t","y"," ","S","t","a","n","d","a","r","d">>) @@ (K_type :> <<"s","t","a","n","d","a","r","d">>)
  @@ (K_pitch :> <<"A"," ","s","e","c","u","r","i","t","y"," ","c","h","e","c","k","l","i","s","t">>) @@ (K_tags :> <<>>)
P_JuiceShop ==
  (K_title :> <<"O","W","A","S","P"," ","J","u","i","c","e"," ","S","h","o","p">>) @@ (K_type :> <<"T","o","o","l">>)
  @@ (K_pitch :> <<"A"," ","g","r","e","a","t"," ","p","r","o","j","e","c","t"," ","f","o","r"," ","t","e","s","t","i","n","g">>)
  @@ (K_tags :> <<<<"j","u","i","c","e","s","h","o","p">>, <<"C","T","F">>>>) @@ (K_level :> 4)
P_Untyped ==
  (K_title :> <<"W","e","b"," ","T","a","l","k">>) @@ (K_tags :> <<<<"s","l","i","d","e","s">>>>) @@ (K_level :> 0)
P_Code ==
  (K_title :> <<"I","n","s","e","c","u","r","e"," ","A","P","I">>) @@ (K_type :> <<"c","o","d","e">>) @@ (K_pitch :> <<"R","E","S","T"," ","a","p","p">>)

ProjectPool == {P_TestTool, P_TestDoc, P_Standard, P_JuiceShop, P_Untyped, P_Code}

P_Scanner ==
  (K_title :> <<"D", "e", "p", " ", "S", "c", "a", "n", "n", "e", "r">>) @@ (K_type :> <<"t","o","o","l">>)
  @@ (K_url :> <<"o", "w", "a", "s", "p", ".", "o", "r", "g", "/", "s", "c", "a", "n">>) @@ (K_level :> 3)

\* the sequences over S of length at most n
SeqsUpTo(S, n) == UNION {[1..k -> S] : k \in 0..n}

(***************************************************************************)
(* The worker.  Every request is handled by a task; a task runs from one    *)
(* await to the next in one step, and tasks interleave at the awaits        *)
(* (the store's get and put, the remote fetch, the outbound message).       *)
(* A stored value is the dict the code dumps as JSON; dumping and loading   *)
(* the dicts of the model (text keys, text and number values) gives the     *)
(* same dict back.                                                          *)
(***************************************************************************)
Users == {"U1", "U2"}
\* the users whose requests the worker's specification takes
ActiveUsers == {"U1"}
\* the states of the remote source the worker's specification fetches from
FetchWorlds == {"full", "partial", "down"}
Tasks == {1, 2}

\* the amounts the clock advances by: half a conversation window, and what
\* is then left of the cache's time to live
TickSteps ==
  {CONVERSATION_TTL_SECONDS \div 2, CACHE_TTL_SECONDS - CONVERSATION_TTL_SECONDS \div 2}

\* an entry of the store: absent, or a value with the time it expires
\* (NoExpiry for a put without expirationTtl)
NoExpiry == -1
NoEntry == [present |-> FALSE]
Entry(value, expires) == [present |-> TRUE, value |-> value, expires |-> expires]

\* lines 304-309: the button of an option of a question; its value is the
\* JSON of current, selected and next (json: the value loads as JSON;
\* object: what it loads to is a JSON object)
Button(question_key, option) ==
  [action_id |-> "flowchart", json |-> TRUE, object |-> TRUE,
   current |-> question_key, selected |-> option.value, next |-> option.next]

\* the selection values whose buttons the users of the model click
ClickValues == {"tool", "code_analysis", "web_testing", "back"}
ClickQuestions == {"start", "tool_type"}

\* lines 295-310: the buttons of the message that asks a question
ButtonsOf(question_key) ==
  {Button(question_key, OptionsOf(question_key)[i]) : i \in 1..Len(OptionsOf(question_key))}

\* the buttons without a payload: lines 266, 276, 407/457, 572
PlainButton(action_id) ==
  [action_id |-> action_id, json |-> FALSE, object |-> FALSE,
   current |-> "", selected |-> "", next |-> ""]

\* the buttons a delivered message of some kind shows
ButtonsIn(kind) ==
  IF kind \in QuestionKeys THEN ButtonsOf(kind)
  ELSE IF kind = "welcome" THEN {PlainButton("start_flowchart"), PlainButton("learn_more")}
  ELSE IF kind = "learn_more" THEN {PlainButton("start_flowchart")}
  ELSE IF kind \in {"results", "no_results"} THEN {PlainButton("start_over")}
  ELSE {}

\* the clicks the model takes: a button of a message the user was sent
Clickable(u) ==
  {b \in UNION {ButtonsIn(kind) : kind \in inbox[u]} :
     b.action_id = "flowchart" => (b.selected \in ClickValues /\ b.current \in ClickQuestions)}

\* the texts of the direct messages the model's users type; line 144 strips
\* and lower-cases the text, line 146 names the texts that start
MessageTexts == {"start", "hello"}
StartTexts == {"start", "help", "find project", "projects"}

(***************************************************************************)
(* verify_slack_signature, lines 190-228.  A header is absent or carries a  *)
(* text; the timestamp header's text is a sequence of characters, the       *)
(* signature header's text is a version before the "=" and a digest after   *)
(* it.  A digest of HMAC-SHA256 is 64 lower-case hex digits that stand for  *)
(* one key and one message and for no other.                                *)
(***************************************************************************)
SLACK_SIGNATURE_VERSION == "v0"
SLACK_SIGNATURE_MAX_AGE == 60 * 5
SLACK_SIGNING_SECRET == "signing_secret"

HmacSha256(key, message) == [hex |-> TRUE, key |-> key, message |-> message]
NotHex == [hex |-> FALSE, key |-> "", message |-> <<>>]

Header(text) == [present |-> TRUE, text |-> text]
NoTimestamp == [present |-> FALSE, text |-> <<>>]
NoSignature == [present |-> FALSE, text |-> [version |-> "", digest |-> NotHex]]
NoHeaders == [timestamp |-> NoTimestamp, signature |-> NoSignature]
NoBody == [endpoint |-> "none", user |-> "none", text |-> "", button |-> PlainButton("none")]
NoRequest == [headers |-> NoHeaders, body |-> NoBody]

Abs(n) == IF n < 0 THEN 0 - n ELSE n

\* f"{SLACK_SIGNATURE_VERSION}:{timestamp}:{body}"
sig_basestring(timestamp, body) == <<SLACK_SIGNATURE_VERSION, timestamp, body>>

\* the check of lines 206-209 leaves out the abs()
verify_slack_signature_NoAbs(headers, body, time) ==
  LET timestamp == headers.timestamp
      slack_signature == headers.signature
      timestamp_num == ParseInt(Strip(timestamp.text))
      computed_signature ==
        [version |-> SLACK_SIGNATURE_VERSION,
         digest |-> HmacSha256(SLACK_SIGNING_SECRET, sig_basestring(timestamp.text, body))]
  IN  IF ~timestamp.present \/ timestamp.text = <<>> \/ ~slack_signature.present THEN FALSE
      ELSE IF ~(slack_signature.text.version = "v0" /\ slack_signature.text.digest.hex) THEN FALSE
      ELSE IF ~timestamp_num.ok THEN FALSE
      ELSE IF timestamp_num.n <= 0 THEN FALSE
      ELSE IF time - timestamp_num.n > SLACK_SIGNATURE_MAX_AGE THEN FALSE
      ELSE computed_signature = slack_signature.text

verify_slack_signature(headers, body, time) ==
  LET timestamp == headers.timestamp
      slack_signature == headers.signature
      timestamp_num == ParseInt(Strip(timestamp.text))
      computed_signature ==
        [version |-> SLACK_SIGNATURE_VERSION,
         digest |-> HmacSha256(SLACK_SIGNING_SECRET, sig_basestring(timestamp.text, body))]
  IN  IF ~timestamp.present \/ timestamp.text = <<>> \/ ~slack_signature.present THEN FALSE
      ELSE IF ~(slack_signature.text.version = "v0" /\ slack_signature.text.digest.hex) THEN FALSE
      ELSE IF ~timestamp_num.ok THEN FALSE
      ELSE IF timestamp_num.n <= 0 THEN FALSE
      ELSE IF Abs(time - timestamp_num.n) > SLACK_SIGNATURE_MAX_AGE THEN FALSE
      ELSE computed_signature = slack_signature.text

\* the event of an event callback, lines 130-147: its type, channel_type,
\* bot_id (absent or a text) and text
NoBotId == [present |-> FALSE, text |-> <<>>]
BotId(text) == [present |-> TRUE, text |-> text]

NoEvent == [type |-> "none", channel_type |-> "none", bot_id |-> NoBotId, text |-> <<>>]

IdleTask ==
  [pc |-> "idle", kind |-> "none", user |-> "none", button |-> PlainButton("none"),
   existing |-> NoEntry, cached |-> NoEntry, hit |-> FALSE, fetches |-> 0, puts |-> 0,
   projects |-> <<>>, category |-> "", matching |-> <<>>, stats |-> NoEntry,
   message |-> "none", log |-> <<>>, status |-> 0, body |-> <<>>,
   request |-> NoRequest, event |-> NoEvent]

WorkerInit ==
  /\ now = 0
  /\ ticks = 0
  /\ kvConv = [u \in Users |-> NoEntry]
  /\ kvCache = NoEntry
  /\ kvStats = NoEntry
  /\ inbox = [u \in Users |-> {}]
  /\ task = [t \in Tasks |-> IdleTask]
  /\ nReq = 0
  /\ answered = {}
  /\ recent = [u \in Users |-> <<>>]

\* a task that has handled its request keeps the request, its log and its
\* response, and drops its other locals.  The response is 200 unless an
\* exception reached the handler (lines 150-152, 186-188)
Done(tk) ==
  [IdleTask EXCEPT !.pc = "done", !.kind = tk.kind, !.user = tk.user,
                   !.button = tk.button, !.log = tk.log,
                   !.status = IF tk.status = 0 THEN 200 ELSE tk.status,
                   !.body = tk.body, !.request = tk.request, !.event = tk.event]

\* a task after a step: the step is written to its log, and the locals go
\* when the request is handled
Logged(tk, what) ==
  LET stepped == [tk EXCEPT !.log = Append(@, what)]
  IN  IF stepped.pc = "done" THEN Done(stepped) ELSE stepped

(***************************************************************************)
(* The environment: the clock and the store's expiry.                       *)
(***************************************************************************)
Tick ==
  /\ ticks < MaxTicks
  /\ \E d \in TickSteps : now' = now + d
  /\ ticks' = ticks + 1
  /\ UNCHANGED <<kvConv, kvCache, kvStats, inbox, task, nReq, answered, recent,
                 walkVars, filterVars, fetchVars, parseVars>>

Expired(entry) == entry.present /\ entry.expires # NoExpiry /\ now >= entry.expires

\* the store drops an entry at some time at or after its expiry
ExpireConversation ==
  /\ \E u \in Users :
       /\ Expired(kvConv[u])
       /\ kvConv' = [kvConv EXCEPT ![u] = NoEntry]
  /\ UNCHANGED <<now, ticks, kvCache, kvStats, inbox, task, nReq, answered, recent,
                 walkVars, filterVars, fetchVars, parseVars>>

\* what a get returns: nothing once the entry's expiry has come, whether or
\* not the store has dropped the entry yet
Read(entry) == IF Expired(entry) THEN NoEntry ELSE entry

ExpireCache ==
  /\ Expired(kvCache)
  /\ kvCache' = NoEntry
  /\ UNCHANGED <<now, ticks, kvConv, kvStats, inbox, task, nReq, answered, recent,
                 walkVars, filterVars, fetchVars, parseVars>>

(***************************************************************************)
(* Requests.                                                                *)
(***************************************************************************)
\* a request goes to a task that handles none; which one makes no difference,
\* the model takes the first
Free(t) ==
  /\ task[t].pc \in {"idle", "done"}
  /\ \A o \in Tasks : task[o].pc \in {"idle", "done"} => t <= o


\* lines 139-147: a direct message of a user; only a start text is answered,
\* by start_conversation (lines 285-287)
ReceiveMessage(t) ==
  /\ Free(t)
  /\ nReq < MaxRequests
  /\ \E u \in ActiveUsers, text \in MessageTexts :
       task' = [task EXCEPT ![t] =
                  IF text \in StartTexts
                    THEN [IdleTask EXCEPT !.pc = "send", !.kind = "message", !.user = u,
                                          !.message = StartKey]
                    ELSE Done([IdleTask EXCEPT !.kind = "message", !.user = u])]
  /\ nReq' = nReq + 1
  /\ UNCHANGED <<now, ticks, kvConv, kvCache, kvStats, inbox, answered, recent,
                 walkVars, filterVars, fetchVars, parseVars>>

\* lines 328-349 and 357-358: handle_flowchart_action up to its first
\* await.  start_flowchart and start_over start the conversation,
\* learn_more sends the text about OWASP, a flowchart button goes on to
\* store_user_selection, or to start_conversation when its value does not
\* load as JSON; a value that loads to something without a get (a number,
\* a list, a text) raises AttributeError at line 344, which line 357 does
\* not catch and the handler answers with 500; any other action id does
\* nothing
Dispatched(u, b) ==
  IF b.action_id \in {"start_flowchart", "start_over"}
    THEN [IdleTask EXCEPT !.pc = "send", !.kind = "action", !.user = u,
                          !.button = b, !.message = StartKey]
  ELSE IF b.action_id = "learn_more"
    THEN [IdleTask EXCEPT !.pc = "send", !.kind = "action", !.user = u,
                          !.button = b, !.message = "learn_more"]
  ELSE IF b.action_id = "flowchart"
    THEN IF b.json /\ ~b.object
           THEN Logged([IdleTask EXCEPT !.pc = "done", !.kind = "action", !.user = u,
                                        !.button = b, !.status = 500], "raised")
         ELSE IF b.json
           THEN [IdleTask EXCEPT !.pc = "sel_get", !.kind = "action", !.user = u,
                                 !.button = b]
           ELSE [IdleTask EXCEPT !.pc = "send", !.kind = "action", !.user = u,
                                 !.button = b, !.message = StartKey]
  ELSE Done([IdleTask EXCEPT !.kind = "action", !.user = u, !.button = b])

\* lines 174-183: a click on a button of a message the user was sent
ReceiveAction(t) ==
  /\ Free(t)
  /\ nReq < MaxRequests
  /\ \E u \in ActiveUsers : \E b \in Clickable(u) :
       task' = [task EXCEPT ![t] = Dispatched(u, b)]
  /\ nReq' = nReq + 1
  /\ UNCHANGED <<now, ticks, kvConv, kvCache, kvStats, inbox, answered, recent,
                 walkVars, filterVars, fetchVars, parseVars>>

\* lines 139-147: the task of a direct message with this text
Messaged(u, text) ==
  IF text \in StartTexts
    THEN [IdleTask EXCEPT !.pc = "send", !.kind = "message", !.user = u, !.message = StartKey]
    ELSE Done([IdleTask EXCEPT !.kind = "message", !.user = u])

\* line 146: the texts that start a conversation, as texts of characters
StartTextsOfEvent ==
  {<<"s", "t", "a", "r", "t">>, <<"h", "e", "l", "p">>,
   <<"f", "i", "n", "d", " ", "p", "r", "o", "j", "e", "c", "t">>, <<"p", "r", "o", "j", "e", "c", "t", "s">>}

\* the bot_id test is left out
EventDispatched_NoBotCheck(u, e) ==
  LET tk == [IdleTask EXCEPT !.kind = "event", !.user = u, !.event = e]
  IN  IF e.type = "team_join"
        THEN [tk EXCEPT !.pc = "send", !.message = "welcome"]
      ELSE IF e.type = "message" /\ e.channel_type = "im"
        THEN IF Strip(Lower(e.text)) \in StartTextsOfEvent
               THEN [tk EXCEPT !.pc = "send", !.message = StartKey]
               ELSE Done(tk)
      ELSE Done(tk)

\* lines 130-149: team_join sends the welcome message; a message in a
\* direct-message channel whose bot_id is absent or empty is lower-cased
\* and stripped (line 144) and starts the conversation when it is a start
\* text (lines 146-147); anything else is answered with OK
EventDispatched(u, e) ==
  LET tk == [IdleTask EXCEPT !.kind = "event", !.user = u, !.event = e]
  IN  IF e.type = "team_join"
        THEN [tk EXCEPT !.pc = "send", !.message = "welcome"]
      ELSE IF e.type = "message" /\ e.channel_type = "im"
        THEN IF e.bot_id.present /\ e.bot_id.text # <<>>
               THEN Done(tk)
             ELSE IF Strip(Lower(e.text)) \in StartTextsOfEvent
               THEN [tk EXCEPT !.pc = "send", !.message = StartKey]
               ELSE Done(tk)
      ELSE Done(tk)

\* event callbacks in a run of events
MaxEvents == 2

EventTexts ==
  {<<"s", "t", "a", "r", "t">>, <<" ", "S", "t", "a", "r", "t", " ">>, <<"H", "E", "L", "P">>,
   <<"F", "i", "n", "d", " ", "P", "r", "o", "j", "e", "c", "t">>, <<"p", "r", "o", "j", "e", "c", "t", "s", "\n">>,
   <<"h", "e", "l", "l", "o">>, <<"s", "t", "a", "r", "t", " ", "n", "o", "w">>, <<"s", "t", "a", "r", "t", "u", "p">>, <<>>}

BotIds == {NoBotId, BotId(<<>>), BotId(<<"B", "1">>)}

Events ==
  {[type |-> "message", channel_type |-> c, bot_id |-> b, text |-> x] :
     c \in {"im", "channel"}, b \in BotIds, x \in EventTexts}
    \cup {[NoEvent EXCEPT !.type = "team_join"], [NoEvent EXCEPT !.type = "app_mention"]}

\* lines 129-149: an event callback
ReceiveEvent(t) ==
  /\ Free(t)
  /\ nReq < MaxEvents
  /\ \E u \in ActiveUsers : \E e \in Events :
       task' = [task EXCEPT ![t] = EventDispatched(u, e)]
  /\ nReq' = nReq + 1
  /\ UNCHANGED <<now, ticks, kvConv, kvCache, kvStats, inbox, answered, recent,
                 walkVars, filterVars, fetchVars, parseVars>>

\* requests in a run of direct messages and clicks on any button
MaxClicks == 2

\* lines 139-147: a direct message of a user in such a run
ReceiveText(t) ==
  /\ Free(t)
  /\ nReq < MaxClicks
  /\ \E u \in ActiveUsers, text \in MessageTexts :
       task' = [task EXCEPT ![t] = Messaged(u, text)]
  /\ nReq' = nReq + 1
  /\ UNCHANGED <<now, ticks, kvConv, kvCache, kvStats, inbox, answered, recent,
                 walkVars, filterVars, fetchVars, parseVars>>

\* the buttons of the messages the worker sends: the plain buttons of the
\* welcome, learn-more and result messages and the options of the questions
SentButtons ==
  {PlainButton(a) : a \in {"start_flowchart", "learn_more", "start_over"}}
    \cup {b \in UNION {ButtonsOf(q) : q \in ClickQuestions} : b.selected \in ClickValues}

\* lines 174-183: a click on any of these buttons; a message of Slack keeps
\* its buttons, whatever the user was sent since
ReceiveClick(t) ==
  /\ Free(t)
  /\ nReq < MaxClicks
  /\ \E u \in ActiveUsers : \E b \in SentButtons :
       task' = [task EXCEPT ![t] = Dispatched(u, b)]
  /\ nReq' = nReq + 1
  /\ UNCHANGED <<now, ticks, kvConv, kvCache, kvStats, inbox, answered, recent,
                 walkVars, filterVars, fetchVars, parseVars>>

\* the requests that come to /slack/events and /slack/interactivity with
\* their two headers: the timestamp header absent, empty, not a number, not
\* positive, or a time of the clock on either side of the window; the
\* signature header absent, of another version, not 64 hex digits, made
\* with another key, made for another timestamp or another body, or made
\* by Slack for this very request
TimestampHeaders ==
  {NoTimestamp, Header(<<>>), Header(<<"a", "b", "c">>), Header(<<"-", "5">>),
   Header(<<"0">>), Header(<<"3", "0", "0">>), Header(<<"3", "0", "1">>),
   Header(<<"1", "4", "9", "9">>), Header(<<"1", "5", "0", "0">>)}

Sign(key, timestamp, body) ==
  [version |-> SLACK_SIGNATURE_VERSION,
   digest |-> HmacSha256(key, sig_basestring(timestamp, body))]

SignatureHeaders(timestamp, body) ==
  {NoSignature,
   Header([Sign(SLACK_SIGNING_SECRET, timestamp, body) EXCEPT !.version = "v1"]),
   Header([version |-> SLACK_SIGNATURE_VERSION, digest |-> NotHex]),
   Header(Sign("another_secret", timestamp, body)),
   Header(Sign(SLACK_SIGNING_SECRET, <<"1">>, body)),
   Header(Sign(SLACK_SIGNING_SECRET, timestamp, [body EXCEPT !.user = "U2"])),
   Header(Sign(SLACK_SIGNING_SECRET, timestamp, body))}

BodiesOf(u) ==
  {[endpoint |-> "slack_events", user |-> u, text |-> text, button |-> PlainButton("none")] :
     text \in MessageTexts}
    \cup {[endpoint |-> "slack_interactivity", user |-> u, text |-> "", button |-> b] :
            b \in Clickable(u)}

\* lines 114-120 and 154-160: both handlers verify the signature first and
\* answer 401 when it fails; a verified request goes on as in
\* ReceiveMessage and ReceiveAction
ReceiveSigned(t) ==
  /\ Free(t)
  /\ nReq < MaxSigned
  /\ \E u \in ActiveUsers : \E body \in BodiesOf(u) :
     \E timestamp \in TimestampHeaders : \E signature \in SignatureHeaders(timestamp.text, body) :
       LET headers == [timestamp |-> timestamp, signature |-> signature]
           request == [headers |-> headers, body |-> body]
           kind == IF body.endpoint = "slack_events" THEN "message" ELSE "action"
           verified == IF body.endpoint = "slack_events" THEN Messaged(u, body.text)
                       ELSE Dispatched(u, body.button)
       IN  task' = [task EXCEPT ![t] =
                      IF verify_slack_signature(headers, body, now)
                        THEN [verified EXCEPT !.request = request]
                        ELSE Done([IdleTask EXCEPT !.kind = kind, !.request = request,
                                                   !.status = 401])]
  /\ nReq' = nReq + 1
  /\ UNCHANGED <<now, ticks, kvConv, kvCache, kvStats, inbox, answered, recent,
                 walkVars, filterVars, fetchVars, parseVars>>

\* lines 139-147 and 174-183 for a user whose events come one after the
\* other, each when the one before is handled: task t handles the events of
\* user u, whatever the tasks of the other users are doing
ReceiveMessageOf(t, u) ==
  /\ task[t].pc \in {"idle", "done"}
  /\ nReq < MaxRequests
  /\ \E text \in MessageTexts :
       task' = [task EXCEPT ![t] = Messaged(u, text)]
  /\ nReq' = nReq + 1
  /\ UNCHANGED <<now, ticks, kvConv, kvCache, kvStats, inbox, answered, recent,
                 walkVars, filterVars, fetchVars, parseVars>>

ReceiveActionOf(t, u) ==
  /\ task[t].pc \in {"idle", "done"}
  /\ nReq < MaxRequests
  /\ \E b \in Clickable(u) :
       task' = [task EXCEPT ![t] = Dispatched(u, b)]
  /\ nReq' = nReq + 1
  /\ UNCHANGED <<now, ticks, kvConv, kvCache, kvStats, inbox, answered, recent,
                 walkVars, filterVars, fetchVars, parseVars>>

\* the node keys, selection values and next keys of the payloads that do
\* not come from a button of the present graph: the button of a message
\* sent under an earlier graph, or a value written by hand
PayloadCurrents == {"tool_type", "old_node"}
PayloadSelections == {"code_analysis", "old_option"}
PayloadNexts == {"end", "old_node"}
\* the values that load as JSON and are no selection payload: "{}", whose
\* three data.get give None (json.dumps writes the key None as "null"), a
\* payload without its current node, and a number, which has no get
EmptyObjectPayload ==
  [action_id |-> "flowchart", json |-> TRUE, object |-> TRUE,
   current |-> "null", selected |-> "null", next |-> "null"]
NoCurrentPayload == [EmptyObjectPayload EXCEPT !.selected = "code_analysis", !.next = "end"]
NumberPayload == [PlainButton("flowchart") EXCEPT !.json = TRUE, !.selected = "5"]

Payloads ==
  {[action_id |-> "flowchart", json |-> TRUE, object |-> TRUE,
    current |-> c, selected |-> v, next |-> n] :
     c \in PayloadCurrents, v \in PayloadSelections, n \in PayloadNexts}
    \cup {[PlainButton("flowchart") EXCEPT !.selected = "not json"]}
    \cup {EmptyObjectPayload, NoCurrentPayload, NumberPayload}

\* lines 174-183, 342-345: a block action whose value is any payload;
\* handle_flowchart_action takes current, selected and next from the value
ReceivePayload(t) ==
  /\ Free(t)
  /\ nReq < MaxRequests
  /\ \E u \in ActiveUsers : \E b \in Payloads :
       task' = [task EXCEPT ![t] = Dispatched(u, b)]
  /\ nReq' = nReq + 1
  /\ UNCHANGED <<now, ticks, kvConv, kvCache, kvStats, inbox, answered, recent,
                 walkVars, filterVars, fetchVars, parseVars>>

\* the scheduled trigger goes through get_cached_projects, which fetches
\* only when the cache is empty or old
ReceiveScheduled_ThroughCache(t) ==
  /\ Free(t)
  /\ nReq < MaxRequests
  /\ task' = [task EXCEPT ![t] = [IdleTask EXCEPT !.pc = "cache_get", !.kind = "scheduled"]]
  /\ nReq' = nReq + 1
  /\ UNCHANGED <<now, ticks, kvConv, kvCache, kvStats, inbox, answered, recent,
                 walkVars, filterVars, fetchVars, parseVars>>

\* lines 108-112: the scheduled trigger runs refresh_project_cache
ReceiveScheduled(t) ==
  /\ Free(t)
  /\ nReq < MaxRequests
  /\ task' = [task EXCEPT ![t] = [IdleTask EXCEPT !.pc = "fetch", !.kind = "scheduled"]]
  /\ nReq' = nReq + 1
  /\ UNCHANGED <<now, ticks, kvConv, kvCache, kvStats, inbox, answered, recent,
                 walkVars, filterVars, fetchVars, parseVars>>

\* lines 782-784: GET /api/projects calls get_cached_projects
ReceiveProjects(t) ==
  /\ Free(t)
  /\ nReq < MaxRequests
  /\ task' = [task EXCEPT ![t] =
                [IdleTask EXCEPT !.pc = "cache_get", !.kind = "api_projects"]]
  /\ nReq' = nReq + 1
  /\ UNCHANGED <<now, ticks, kvConv, kvCache, kvStats, inbox, answered, recent,
                 walkVars, filterVars, fetchVars, parseVars>>

\* lines 769-772: GET /api/stats; its one step is the get of the stats
ReceiveStats(t) ==
  /\ Free(t)
  /\ nReq < MaxRequests
  /\ task' = [task EXCEPT ![t] =
                [IdleTask EXCEPT !.pc = "api_stats_get", !.kind = "api_stats"]]
  /\ nReq' = nReq + 1
  /\ UNCHANGED <<now, ticks, kvConv, kvCache, kvStats, inbox, answered, recent,
                 walkVars, filterVars, fetchVars, parseVars>>

\* lines 772-780: the get, and the response made of what it returned
ApiStatsGet(t) ==
  /\ task[t].pc = "api_stats_get"
  /\ task' = [task EXCEPT ![t] =
                Logged([@ EXCEPT !.pc = "done", !.stats = kvStats], "api_stats_get")]
  /\ UNCHANGED <<now, ticks, kvConv, kvCache, kvStats, inbox, nReq, answered, recent,
                 walkVars, filterVars, fetchVars, parseVars>>

(***************************************************************************)
(* store_user_selection, lines 360-369.                                     *)
(***************************************************************************)
\* line 363: the get
SelectionGet(t) ==
  /\ task[t].pc = "sel_get"
  /\ task' = [task EXCEPT ![t] =
                Logged([@ EXCEPT !.pc = "sel_put", !.existing = Read(kvConv[task[t].user])],
                       "conv_get")]
  /\ UNCHANGED <<now, ticks, kvConv, kvCache, kvStats, inbox, nReq, answered, recent,
                 walkVars, filterVars, fetchVars, parseVars>>

\* a second click on the answer of a node takes the answer back
WithSelection_Toggle(existing, question, answer, time) ==
  LET state == IF existing.present THEN existing.value ELSE [selections |-> <<>>]
      chosen == question \in DOMAIN state.selections /\ state.selections[question] = answer
  IN  [selections |-> IF chosen
                        THEN [k \in DOMAIN state.selections \ {question} |-> state.selections[k]]
                        ELSE (question :> answer) @@ state.selections,
       last_updated |-> time]

\* a blind overwrite of the record: the answers read are dropped
WithSelection_Blind(existing, question, answer, time) ==
  [selections |-> (question :> answer), last_updated |-> time]

\* an answer is only added: a node that has an answer keeps it
WithSelection_KeepFirst(existing, question, answer, time) ==
  LET state == IF existing.present THEN existing.value ELSE [selections |-> <<>>]
  IN  [selections |-> state.selections @@ (question :> answer), last_updated |-> time]

\* an answer at start begins the record anew
WithSelection_ResetAtStart(existing, question, answer, time) ==
  LET state == IF existing.present /\ question # StartKey
                 THEN existing.value ELSE [selections |-> <<>>]
  IN  [selections |-> (question :> answer) @@ state.selections, last_updated |-> time]

\* lines 365-367: the state that is put, from the entry that was read
WithSelection(existing, question, answer, time) ==
  LET state == IF existing.present THEN existing.value ELSE [selections |-> <<>>]
  IN  [selections |-> (question :> answer) @@ state.selections, last_updated |-> time]

\* a record that is there keeps the expiry it has
SelectionPut_AbsoluteExpiry(t) ==
  /\ task[t].pc = "sel_put"
  /\ LET tk == task[t]
         b == tk.button
         put == [tk EXCEPT !.puts = @ + 1]
     IN  /\ kvConv' = [kvConv EXCEPT ![tk.user] =
                         Entry(WithSelection(tk.existing, b.current, b.selected, now),
                               IF tk.existing.present THEN tk.existing.expires
                               ELSE now + CONVERSATION_TTL_SECONDS)]
         /\ answered' = answered \cup {<<tk.user, b.current, b.selected>>}
         /\ recent' = [recent EXCEPT ![tk.user] = (b.current :> b.selected) @@ @]
         /\ task' = [task EXCEPT ![t] =
                       Logged(IF b.next = EndMarker
                                THEN [put EXCEPT !.pc = "cache_get", !.category = b.selected]
                              ELSE IF b.next \in QuestionKeys
                                THEN [put EXCEPT !.pc = "send", !.message = b.next]
                              ELSE [put EXCEPT !.pc = "done"],
                              "conv_put")]
  /\ UNCHANGED <<now, ticks, kvCache, kvStats, inbox, nReq, walkVars, filterVars, fetchVars, parseVars>>

\* the key of the record is the same for every user
SelectionPut_SharedKey(t) ==
  /\ task[t].pc = "sel_put"
  /\ LET tk == task[t]
         b == tk.button
         put == [tk EXCEPT !.puts = @ + 1]
     IN  /\ kvConv' = [u \in Users |->
                         Entry(WithSelection(tk.existing, b.current, b.selected, now),
                               now + CONVERSATION_TTL_SECONDS)]
         /\ answered' = answered \cup {<<tk.user, b.current, b.selected>>}
         /\ recent' = [recent EXCEPT ![tk.user] = (b.current :> b.selected) @@ @]
         /\ task' = [task EXCEPT ![t] =
                       Logged(IF b.next = EndMarker
                                THEN [put EXCEPT !.pc = "cache_get", !.category = b.selected]
                              ELSE IF b.next \in QuestionKeys
                                THEN [put EXCEPT !.pc = "send", !.message = b.next]
                              ELSE [put EXCEPT !.pc = "done"],
                              "conv_put")]
  /\ UNCHANGED <<now, ticks, kvCache, kvStats, inbox, nReq, walkVars, filterVars, fetchVars, parseVars>>

\* line 369: the put; then lines 351-356: "end" goes on to
\* show_matching_projects, any other next to send_flowchart_question, which
\* returns at once when the key has no question (lines 291-293)
SelectionPut(t) ==
  /\ task[t].pc = "sel_put"
  /\ LET tk == task[t]
         b == tk.button
         put == [tk EXCEPT !.puts = @ + 1]
     IN  /\ kvConv' = [kvConv EXCEPT ![tk.user] =
                         Entry(WithSelection(tk.existing, b.current, b.selected, now),
                               now + CONVERSATION_TTL_SECONDS)]
         /\ answered' = answered \cup {<<tk.user, b.current, b.selected>>}
         /\ recent' = [recent EXCEPT ![tk.user] = (b.current :> b.selected) @@ @]
         /\ task' = [task EXCEPT ![t] =
                       Logged(IF b.next = EndMarker
                                THEN [put EXCEPT !.pc = "cache_get", !.category = b.selected]
                              ELSE IF b.next \in QuestionKeys
                                THEN [put EXCEPT !.pc = "send", !.message = b.next]
                              ELSE [put EXCEPT !.pc = "done"],
                              "conv_put")]
  /\ UNCHANGED <<now, ticks, kvCache, kvStats, inbox, nReq, walkVars, filterVars, fetchVars, parseVars>>

(***************************************************************************)
(* get_cached_projects, lines 622-643, and refresh_project_cache, lines     *)
(* 744-755.                                                                 *)
(***************************************************************************)
\* the cache is used up to and at an age of the time to live
CacheIsFresh_Inclusive(cached, time) ==
  cached.present /\ time - cached.value.timestamp <= CACHE_TTL_SECONDS

\* a cached catalog without projects counts as no cache
CacheIsFresh_NonEmpty(cached, time) ==
  /\ cached.present
  /\ cached.value.projects # <<>>
  /\ time - cached.value.timestamp < CACHE_TTL_SECONDS

\* lines 627-630: there is a cached value and its age is below the TTL
CacheIsFresh(cached, time) ==
  cached.present /\ time - cached.value.timestamp < CACHE_TTL_SECONDS

\* lines 377-463 of show_matching_projects, run when get_cached_projects
\* has returned: the filter, and the message that is then to be sent
Matched(tk, projects) ==
  LET matching == filter_projects(projects, tk.category)
  IN  [tk EXCEPT !.pc = "send", !.projects = projects, !.matching = matching,
                 !.message = IF matching = <<>> THEN "no_results" ELSE "results"]

\* get_cached_projects returns to its caller: handle_get_projects answers
\* with the projects (lines 784-792), show_matching_projects goes on
Returned(tk, projects) ==
  IF tk.kind = "api_projects"
    THEN [tk EXCEPT !.pc = "done", !.projects = projects, !.body = projects]
    ELSE Matched(tk, projects)

\* line 625: the get; a fresh cache returns its projects (line 631)
CacheGet(t) ==
  /\ task[t].pc = "cache_get"
  /\ task' = [task EXCEPT ![t] =
                Logged(IF CacheIsFresh(kvCache, now)
                         THEN Returned([@ EXCEPT !.cached = kvCache, !.hit = TRUE],
                                       kvCache.value.projects)
                         ELSE [@ EXCEPT !.pc = "fetch", !.cached = kvCache],
                       "cache_get")]
  /\ UNCHANGED <<now, ticks, kvConv, kvCache, kvStats, inbox, nReq, answered, recent,
                 walkVars, filterVars, fetchVars, parseVars>>

\* lines 634 and 746: the fetch, from the remote source as it then is
Fetch(t) ==
  /\ task[t].pc = "fetch"
  /\ \E w \in FetchWorlds :
       task' = [task EXCEPT ![t] =
                  Logged([@ EXCEPT !.pc = "cache_put", !.fetches = @ + 1,
                                   !.projects = fetch_owasp_projects(RemoteWorlds[w])],
                         "fetch")]
  /\ UNCHANGED <<now, ticks, kvConv, kvCache, kvStats, inbox, nReq, answered, recent,
                 walkVars, filterVars, fetchVars, parseVars>>

\* the projects are put without the time of the put
WithCatalog_Unstamped(projects, time) == [timestamp |-> 0, projects |-> projects]

\* lines 639 and 751: the value that is put, the fetched projects with the
\* time of the put
WithCatalog(projects, time) == [timestamp |-> time, projects |-> projects]

\* the put leaves a slot alone that another refresh has filled meanwhile
CachePut_IfAbsent(t) ==
  /\ task[t].pc = "cache_put"
  /\ kvCache' = IF CacheIsFresh(kvCache, now)
                  THEN kvCache
                  ELSE Entry(WithCatalog(task[t].projects, now), now + CACHE_TTL_SECONDS)
  /\ task' = [task EXCEPT ![t] =
                Logged(IF @.kind = "scheduled"
                         THEN [@ EXCEPT !.pc = "done", !.puts = @ + 1]
                         ELSE Returned([@ EXCEPT !.puts = @ + 1], @.projects),
                       "cache_put")]
  /\ UNCHANGED <<now, ticks, kvConv, kvStats, inbox, nReq, answered, recent,
                 walkVars, filterVars, fetchVars, parseVars>>

\* lines 637-641 and 749-753: the put of the fetched projects with the time
\* of the put; get_cached_projects then returns the projects (line 643)
CachePut(t) ==
  /\ task[t].pc = "cache_put"
  /\ kvCache' = Entry(WithCatalog(task[t].projects, now), now + CACHE_TTL_SECONDS)
  /\ task' = [task EXCEPT ![t] =
                Logged(IF @.kind = "scheduled"
                         THEN [@ EXCEPT !.pc = "done", !.puts = @ + 1]
                         ELSE Returned([@ EXCEPT !.puts = @ + 1], @.projects),
                       "cache_put")]
  /\ UNCHANGED <<now, ticks, kvConv, kvStats, inbox, nReq, answered, recent,
                 walkVars, filterVars, fetchVars, parseVars>>

(***************************************************************************)
(* A get or a put of the store raises: the exception ends the request, as   *)
(* a 500 where the handler catches it (lines 150-152, 186-188), and the     *)
(* store is as it was.                                                      *)
(***************************************************************************)
StorePlaces == {"sel_get", "sel_put", "cache_get", "cache_put", "stats_get", "stats_put"}

\* the call that raised is made again
StoreRaises_Retry(t) ==
  /\ task[t].pc \in StorePlaces
  /\ task' = [task EXCEPT ![t] = Logged(@, "raised")]
  /\ UNCHANGED <<now, ticks, kvConv, kvCache, kvStats, inbox, nReq, answered, recent,
                 walkVars, filterVars, fetchVars, parseVars>>

StoreRaises(t) ==
  /\ task[t].pc \in StorePlaces
  /\ task' = [task EXCEPT ![t] = Logged([@ EXCEPT !.pc = "done", !.status = 500], "raised")]
  /\ UNCHANGED <<now, ticks, kvConv, kvCache, kvStats, inbox, nReq, answered, recent,
                 walkVars, filterVars, fetchVars, parseVars>>

(***************************************************************************)
(* send_dm, lines 581-620.  Slack delivers the message, or answers not ok   *)
(* (logged, lines 597-599 and 619-620), or the request to Slack raises.     *)
(***************************************************************************)
SendOutcomes == {"delivered", "not_ok", "raises"}

\* a search that found nothing is not recorded
SendDm_FoundOnly(t) ==
  /\ task[t].pc = "send"
  /\ \E outcome \in SendOutcomes :
       LET tk == task[t]
           search == tk.message = "results"
       IN  /\ inbox' = IF outcome = "delivered"
                         THEN [inbox EXCEPT ![tk.user] = @ \cup {tk.message}]
                         ELSE inbox
           /\ task' = [task EXCEPT ![t] =
                         Logged(IF outcome = "raises"
                                  THEN [tk EXCEPT !.pc = "done", !.status = 500]
                                ELSE IF search THEN [tk EXCEPT !.pc = "stats_get"]
                                ELSE [tk EXCEPT !.pc = "done"],
                                IF outcome = "raises" THEN "dm_raised"
                                ELSE IF outcome = "not_ok" THEN "dm_not_ok" ELSE "dm")]
  /\ UNCHANGED <<now, ticks, kvConv, kvCache, kvStats, nReq, answered, recent,
                 walkVars, filterVars, fetchVars, parseVars>>

SendDm(t) ==
  /\ task[t].pc = "send"
  /\ \E outcome \in SendOutcomes :
       LET tk == task[t]
           search == tk.message \in {"results", "no_results"}
       IN  /\ inbox' = IF outcome = "delivered"
                         THEN [inbox EXCEPT ![tk.user] = @ \cup {tk.message}]
                         ELSE inbox
           /\ task' = [task EXCEPT ![t] =
                         Logged(IF outcome = "raises"
                                  THEN [tk EXCEPT !.pc = "done", !.status = 500]
                                ELSE IF search THEN [tk EXCEPT !.pc = "stats_get"]
                                ELSE [tk EXCEPT !.pc = "done"],
                                IF outcome = "raises" THEN "dm_raised"
                                ELSE IF outcome = "not_ok" THEN "dm_not_ok" ELSE "dm")]
  /\ UNCHANGED <<now, ticks, kvConv, kvCache, kvStats, nReq, answered, recent,
                 walkVars, filterVars, fetchVars, parseVars>>

(***************************************************************************)
(* record_search, lines 757-767.                                            *)
(***************************************************************************)
\* line 760: the get
StatsGet(t) ==
  /\ task[t].pc = "stats_get"
  /\ task' = [task EXCEPT ![t] =
                Logged([@ EXCEPT !.pc = "stats_put", !.stats = kvStats], "stats_get")]
  /\ UNCHANGED <<now, ticks, kvConv, kvCache, kvStats, inbox, nReq, answered, recent,
                 walkVars, filterVars, fetchVars, parseVars>>

\* the counter of the category starts again at 1
WithSearch_Restart(existing, category, time) ==
  LET stats == IF existing.present THEN existing.value ELSE [total |-> 0, categories |-> <<>>]
  IN  [total |-> stats.total + 1,
       categories |-> (category :> 1) @@ stats.categories,
       last_search |-> time]

\* the total is counted up from the record in the store at the time of the
\* put, the counters from the record that was read
WithSearch_TotalFromStore(existing, category, time) ==
  LET stats == IF existing.present THEN existing.value ELSE [total |-> 0, categories |-> <<>>]
      stored == IF kvStats.present THEN kvStats.value ELSE [total |-> 0, categories |-> <<>>]
  IN  [total |-> stored.total + 1,
       categories |-> (category :> Get(stats.categories, category, 0) + 1)
                      @@ stats.categories,
       last_search |-> time]

\* lines 762-765: the stats that are put, from the entry that was read
WithSearch(existing, category, time) ==
  LET stats == IF existing.present THEN existing.value ELSE [total |-> 0, categories |-> <<>>]
  IN  [total |-> stats.total + 1,
       categories |-> (category :> Get(stats.categories, category, 0) + 1)
                      @@ stats.categories,
       last_search |-> time]

\* line 767: the put, without expirationTtl
StatsPut(t) ==
  /\ task[t].pc = "stats_put"
  /\ kvStats' = Entry(WithSearch(task[t].stats, task[t].category, now), NoExpiry)
  /\ task' = [task EXCEPT ![t] = Logged([@ EXCEPT !.pc = "done"], "stats_put")]
  /\ UNCHANGED <<now, ticks, kvConv, kvCache, inbox, nReq, answered, recent,
                 walkVars, filterVars, fetchVars, parseVars>>

(***************************************************************************)
(* The walk of the flowchart: the keys reached from "start" by following    *)
(* declared options, as send_flowchart_question (lines 289-326) offers      *)
(* them and handle_flowchart_action (lines 351-356) follows them.           *)
(***************************************************************************)
WalkInit ==
  /\ wnode = StartKey
  /\ wtrail = <<StartKey>>

\* no reply built yet
NoReply == [kind |-> "none", found |-> 0, sections |-> <<>>, buttons |-> {}]

\* a filter state that the walk leaves alone
FilterIdle ==
  /\ fProjects = <<>>
  /\ fCategory = "none"
  /\ fResult = <<>>
  /\ fDone = FALSE
  /\ fReply = NoReply
  /\ fCount = 0

\* a fetcher state that the others leave alone
FetchIdle ==
  /\ gWorld = <<>>
  /\ gResult = <<>>
  /\ gDone = FALSE

\* a parser state that the others leave alone
ParseIdle ==
  /\ pLines = <<>>
  /\ pShape = "none"
  /\ pContent = <<>>
  /\ pResult = NoMetadata
  /\ pDone = FALSE

\* one answer: the walk moves to the next key of a declared option.  A key
\* that is neither a node nor "end" has no question to send (lines 291-293)
Follow ==
  /\ wnode \in QuestionKeys
  /\ Len(wtrail) <= MaxPath
  /\ \E i \in 1..Len(OptionsOf(wnode)) :
       /\ wnode' = OptionsOf(wnode)[i].next
       /\ wtrail' = Append(wtrail, OptionsOf(wnode)[i].next)
  /\ UNCHANGED <<filterVars, fetchVars, parseVars, workerVars>>

InitWalk == WalkInit /\ FilterIdle /\ FetchIdle /\ ParseIdle /\ WorkerInit

SpecWalk == InitWalk /\ [][Follow]_vars

\* the keys the walk went through
Trail == {wtrail[i] : i \in 1..Len(wtrail)}

\* the keys reachable from the keys of S along declared options
RECURSIVE ReachableFrom(_)
ReachableFrom(S) ==
  LET T == S \cup {OptionsOf(k)[i].next : <<k, i>> \in
                     {<<k2, i2>> \in (S \cap QuestionKeys) \X (1..8) :
                        i2 <= Len(OptionsOf(k2))}}
  IN  IF T = S THEN S ELSE ReachableFrom(T)

\* C1: graph closure.  Every option of every node of FLOWCHART_QUESTIONS
\* leads to the key of a node or to "end", and a walk that follows declared
\* options from "start" only ever stands at a node or at "end".
C1_GraphClosure ==
  /\ \A k \in QuestionKeys : \A i \in 1..Len(OptionsOf(k)) :
       OptionsOf(k)[i].next \in QuestionKeys \cup {EndMarker}
  /\ wnode \in QuestionKeys \cup {EndMarker}
  /\ Trail \subseteq QuestionKeys \cup {EndMarker}

\* C1's case: a walk that went through a second-level node, back to start,
\* through another node and then to "end"
C1_Witness ==
  /\ wnode = EndMarker
  /\ Len(wtrail) >= 5
  /\ Cardinality(Trail \cap QuestionKeys) >= 3

\* C2: no orphan nodes.  Every node of the graph is reached from "start" by
\* a path of declared options, and the walk stays within the reachable keys.
C2_NoOrphanNodes ==
  /\ QuestionKeys \subseteq ReachableFrom({StartKey})
  /\ Trail \subseteq ReachableFrom({StartKey})

\* C2's case: one walk from "start" that went through every node of the graph
C2_Witness == QuestionKeys \subseteq Trail

\* the next keys of the options of k other than "back"
ForwardNexts(k) ==
  {OptionsOf(k)[i].next : i \in {j \in 1..Len(OptionsOf(k)) : OptionsOf(k)[j].value # "back"}}

\* the keys reached from the keys of S without "back"
RECURSIVE ForwardFrom(_)
ForwardFrom(S) ==
  LET T == S \cup UNION {ForwardNexts(k) : k \in S \cap QuestionKeys}
  IN  IF T = S THEN S ELSE ForwardFrom(T)

\* the place of the last "start" in the trail of the walk
LastStart == CHOOSE j \in 1..Len(wtrail) :
               wtrail[j] = StartKey /\ \A i \in (j + 1)..Len(wtrail) : wtrail[i] # StartKey

\* C16: the flowchart has no cycle but through "back".  No node is reached
\* from itself without a "back" option, every "back" option leads to
\* "start", "end" is reached from every node without "back"; and in a
\* walk, the answers given since the walk last stood at "start" went
\* through different keys and are at most as many as there are nodes.
C16_NoMandatoryCycle ==
  /\ \A k \in QuestionKeys :
       /\ k \notin ForwardFrom(ForwardNexts(k))
       /\ EndMarker \in ForwardFrom({k})
       /\ \A i \in 1..Len(OptionsOf(k)) :
            OptionsOf(k)[i].value = "back" => OptionsOf(k)[i].next = StartKey
  /\ Len(wtrail) - LastStart <= Cardinality(QuestionKeys)
  /\ \A i \in LastStart..Len(wtrail) : \A j \in LastStart..Len(wtrail) :
       i # j => wtrail[i] # wtrail[j]

\* a walk that went around through "back" twice and then to "end" without
\* it
C16_Witness ==
  /\ Len(wtrail) = 7
  /\ wtrail[3] = StartKey /\ wtrail[5] = StartKey
  /\ wtrail[2] # wtrail[4]
  /\ wtrail[6] \in QuestionKeys
  /\ wnode = EndMarker

(***************************************************************************)
(* show_matching_projects from its filter to its two calls, lines 377-468:  *)
(* the blocks of the reply and the count handed to record_search.           *)
(***************************************************************************)
\* lines 534-542
get_level_emoji(level) ==
  IF level = 4 THEN "trophy" ELSE IF level = 3 THEN "gold" ELSE IF level = 2 THEN "silver"
  ELSE IF level = 1 THEN "bronze" ELSE "package"

\* lines 437-444: the section of one project
ProjectSection(project) ==
  [emoji |-> get_level_emoji(Get(project, K_level, 0)),
   url |-> Get(project, K_url, <<"#">>),
   title |-> Get(project, K_title, <<"U", "n", "k", "n", "o", "w", "n", " ", "P", "r", "o", "j", "e", "c", "t">>),
   pitch |-> Slice(Get(project, K_pitch, <<"N", "o", " ", "d", "e", "s", "c", "r", "i", "p", "t", "i", "o", "n", " ", "a", "v", "a", "i", "l", "a", "b", "l", "e", ".">>), 0, 200)]

\* the number in the head line is the number of the sections
ResultBlocks_CountsShown(matching) ==
  IF matching = <<>>
    THEN [kind |-> "no_results", found |-> 0, sections |-> <<>>,
          buttons |-> {"start_over", "new_project"}]
    ELSE [kind |-> "results", found |-> Len(Slice(matching, 0, 5)),
          sections |-> [i \in 1..Len(Slice(matching, 0, 5)) |-> ProjectSection(matching[i])],
          buttons |-> {"start_over"}]

\* lines 378-463: the blocks; found is the number in the head line
\* "Found N project(s)", sections are the sections of matching[:5]
ResultBlocks(matching) ==
  IF matching = <<>>
    THEN [kind |-> "no_results", found |-> 0, sections |-> <<>>,
          buttons |-> {"start_over", "new_project"}]
    ELSE [kind |-> "results", found |-> Len(matching),
          sections |-> [i \in 1..Len(Slice(matching, 0, 5)) |-> ProjectSection(matching[i])],
          buttons |-> {"start_over"}]

\* projects in a catalog handed to show_matching_projects
MaxShown == 6

ShowPool == {P_TestTool, P_Scanner, P_TestDoc}
ShowCategories == {"code_analysis", "standards"}

ShowInit ==
  /\ fProjects \in SeqsUpTo(ShowPool, MaxShown)
  /\ fCategory \in ShowCategories
  /\ fResult = <<>>
  /\ fDone = FALSE
  /\ fReply = NoReply
  /\ fCount = 0

\* lines 377, 378-463 and 468
ShowMatching ==
  /\ ~fDone
  /\ LET matching == filter_projects(fProjects, fCategory)
     IN  /\ fResult' = matching
         /\ fReply' = ResultBlocks(matching)
         /\ fCount' = Len(matching)
  /\ fDone' = TRUE
  /\ UNCHANGED <<fProjects, fCategory, walkVars, fetchVars, parseVars, workerVars>>

(***************************************************************************)
(* The matcher alone: filter_projects applied to a project list and a       *)
(* category.                                                                *)
(***************************************************************************)
CategoryInputs ==
  DOMAIN category_mappings \cup {"unknown_category", "totally_unknown_tag", "back"}

FilterInit ==
  /\ fProjects \in SeqsUpTo(ProjectPool, MaxProjects)
  /\ fCategory \in CategoryInputs
  /\ fResult = <<>>
  /\ fDone = FALSE
  /\ fReply = NoReply
  /\ fCount = 0

ApplyFilter ==
  /\ ~fDone
  /\ fResult' = filter_projects(fProjects, fCategory)
  /\ fDone' = TRUE
  /\ UNCHANGED <<fProjects, fCategory, fReply, fCount, walkVars, fetchVars, parseVars,
                 workerVars>>

InitFilter == FilterInit /\ WalkInit /\ FetchIdle /\ ParseIdle /\ WorkerInit

SpecFilter == InitFilter /\ [][ApplyFilter]_vars

C10_UnknownCategoryEmpty ==
  (fDone /\ fCategory \notin DOMAIN category_mappings) => fResult = <<>>

InitShow == ShowInit /\ WalkInit /\ FetchIdle /\ ParseIdle /\ WorkerInit

SpecShow == InitShow /\ [][ShowMatching]_vars

\* the text of a project in which the keywords are looked for, and its type
TextOf(project) ==
  Lower(Get(project, K_title, <<>>) \o <<" ">> \o Get(project, K_pitch, <<>>) \o <<" ">>
        \o Join(<<" ">>, Get(project, K_tags, <<>>)) \o <<" ">>
        \o Get(project, K_type, <<>>))
TypeOf(project) == Get(project, K_type, <<>>)

T_tool == <<"t","o","o","l">>
T_code == <<"c","o","d","e">>
T_documentation == <<"d","o","c","u","m","e","n","t","a","t","i","o","n">>
T_standard == <<"s","t","a","n","d","a","r","d">>

\* the keywords of the first example, spelled out
CodeAnalysisKeywords ==
  {<<"s","a","s","t">>, <<"c","o","d","e">>, <<"a","n","a","l","y","s","i","s">>, <<"d","e","p","e","n","d","e","n","c","y">>, <<"s","c","a","n","n","e","r">>}

KeywordsOf(category) ==
  IF category = "code_analysis" THEN CodeAnalysisKeywords
  ELSE {category_mappings[category][n] : n \in 1..Len(category_mappings[category])}

\* the family of a category says which types may match; type is the type
\* as the family compares it
FamilyAllows(category, type) ==
  IF category \in {"code_analysis", "web_testing", "auth", "monitoring"}
    THEN type = T_tool
  ELSE IF category \in {"standards", "secure_dev", "testing_guide", "cheatsheet"}
    THEN type \in {T_documentation, T_standard}
  ELSE IF category \in {"labs", "presentations", "courses"}
    THEN TRUE
  ELSE type \in {T_tool, T_code}

HasKeyword(category, project) ==
  \E kw \in KeywordsOf(category) : Contains(TextOf(project), kw)

\* C11, as stated: for a known category filter_projects returns exactly the
\* projects whose type is the type of the category's family ("tool" for the
\* tool categories, "documentation" or "standard" for the documentation
\* categories, any for the training categories, "tool" or "code" for the
\* vulnerable-app categories) and whose lower-cased text of title, pitch,
\* tags and type contains a keyword of the category.
C11_FamilyAndKeyword_TypeAsWritten ==
  (fDone /\ fCategory \in DOMAIN category_mappings) =>
    fResult = SelectSeq(fProjects,
                        LAMBDA p : FamilyAllows(fCategory, TypeOf(p)) /\ HasKeyword(fCategory, p))

\* C11, amended: the same, with the type compared in lower case: a project
\* of type "Tool" is a tool.
C11_FamilyAndKeyword ==
  (fDone /\ fCategory \in DOMAIN category_mappings) =>
    fResult = SelectSeq(fProjects,
                        LAMBDA p : FamilyAllows(fCategory, Lower(TypeOf(p)))
                                     /\ HasKeyword(fCategory, p))

\* the first example of the tests: of a code analysis tool and a guide,
\* "code_analysis" returns the tool only
C11_Witness ==
  /\ fDone
  /\ fCategory = "code_analysis"
  /\ fProjects = <<P_TestTool, P_TestDoc>>
  /\ fResult = <<P_TestTool>>

\* r is s with some elements left out
IsSubsequence(r, s) ==
  \E f \in [1..Len(r) -> 1..Len(s)] :
    /\ \A i \in 1..Len(r) : r[i] = s[f[i]]
    /\ \A i \in 1..Len(r) : \A j \in 1..Len(r) : i < j => f[i] < f[j]

\* C12: for every project list and every category, known or not, the result
\* of filter_projects is the input with some projects left out: no project
\* that is not in the input, none more often than in the input, and in the
\* order of the input.
C12_OrderPreservingSubsequence ==
  fDone => IsSubsequence(fResult, fProjects)

\* two different projects of three are returned, the one in the middle is
\* left out
C12_Witness ==
  /\ fDone
  /\ fCategory \in DOMAIN category_mappings
  /\ Len(fProjects) = 3
  /\ Len(fResult) = 2
  /\ fResult = <<fProjects[1], fProjects[3]>>
  /\ fProjects[1] # fProjects[3]
  /\ fProjects[2] # fProjects[1] /\ fProjects[2] # fProjects[3]

(***************************************************************************)
(* The fetcher alone: fetch_owasp_projects applied to a remote source.  The *)
(* listing of the organization raises, is refused, or lists repositories;   *)
(* each repository's index.md is in one of the states of DocStates.         *)
(***************************************************************************)
Doc_Bad == <<"-","-","-","\n","t","i","t","l","e",":"," ","B","a","d","\n","t","y","p","e",":"," ","c","o","d","e","\n","-","-","-","\n">>
Doc_Untitled == <<"-","-","-","\n","p","i","t","c","h",":"," ","N","o"," ","t","i","t","l","e","\n","-","-","-","\n">>

RepoPool == {Repo_Zap, Repo_Asvs, Repo_Bad, Repo_Site}

\* the index.md of each repository when it is there and well formed
GoodDoc(repo) ==
  IF repo = Repo_Asvs THEN Doc_Asvs ELSE IF repo = Repo_Bad THEN Doc_Bad ELSE Doc_Zap

\* main: on the main branch; master: 404 on main, on the master branch;
\* raises: the request for main raises; master_raises: 404 on main, the
\* request for master raises; missing: 404 on both; malformed: no front
\* matter; untitled: front matter without a title
DocStates == {"main", "master", "raises", "master_raises", "missing", "malformed", "untitled"}

DocsOf(repo, state) ==
  LET main == IF state = "main" THEN Answer(200, GoodDoc(repo))
              ELSE IF state = "raises" THEN Raises
              ELSE IF state = "malformed" THEN Answer(200, Doc_NoFrontMatter)
              ELSE IF state = "untitled" THEN Answer(200, Doc_Untitled)
              ELSE Answer(404, <<>>)
      master == IF state = "master" THEN Answer(200, GoodDoc(repo))
                ELSE IF state = "master_raises" THEN Raises
                ELSE Answer(404, <<>>)
  IN  (<<repo.name, "main">> :> main) @@ (<<repo.name, "master">> :> master)

\* the listings: sequences of different repositories
Listings ==
  {l \in SeqsUpTo(RepoPool, MaxRepos) : \A i \in 1..Len(l) : \A j \in 1..Len(l) : i # j => l[i] # l[j]}

ListingAnswers ==
  {Raises, Answer(403, <<>>)} \cup {Answer(200, l) : l \in Listings}

\* the state of the index.md of Repo_Site is fixed: it is there
DocStateChoices ==
  {f \in [RepoPool -> DocStates] : f[Repo_Site] = "main"}

WorldOf(listing, f) ==
  GITHUB_ORGS[1] :> [listing |-> listing,
                     docs |-> DocsOf(Repo_Zap, f[Repo_Zap]) @@ DocsOf(Repo_Asvs, f[Repo_Asvs])
                              @@ DocsOf(Repo_Bad, f[Repo_Bad]) @@ DocsOf(Repo_Site, f[Repo_Site])]

FetchInit ==
  /\ \E listing \in ListingAnswers : \E f \in DocStateChoices : gWorld = WorldOf(listing, f)
  /\ gResult = <<>>
  /\ gDone = FALSE

ApplyFetch ==
  /\ ~gDone
  /\ gResult' = fetch_owasp_projects(gWorld)
  /\ gDone' = TRUE
  /\ UNCHANGED <<gWorld, walkVars, filterVars, parseVars, workerVars>>

InitFetch == FetchInit /\ WalkInit /\ FilterIdle /\ ParseIdle /\ WorkerInit

SpecFetch == InitFetch /\ [][ApplyFetch]_vars

\* the listing and the documents of the remote source of the fetch
ListingOf(world) == world[GITHUB_ORGS[1]].listing
Listed(world) ==
  IF ListingOf(world).outcome = "ok" /\ ListingOf(world).status = 200
    THEN ListingOf(world).body ELSE <<>>
DocOf(world, repo, branch) == world[GITHUB_ORGS[1]].docs[<<repo.name, branch>>]

\* the document of a repository as the fetch gets it: from main, or from
\* master when main is not a 200; none when a request raises or neither
\* branch has it
NoDoc == <<"n","o"," ","d","o","c">>
Delivered(world, repo) ==
  LET main == DocOf(world, repo, "main")
      master == DocOf(world, repo, "master")
  IN  IF main.outcome = "raises" THEN NoDoc
      ELSE IF main.status = 200 THEN main.body
      ELSE IF master.outcome = "raises" THEN NoDoc
      ELSE IF master.status = 200 THEN master.body
      ELSE NoDoc

\* the repository is a project repository whose document gives metadata
\* with a title
Yields(world, repo) ==
  /\ StartsWith(repo.name, <<"w","w","w","-","p","r","o","j","e","c","t","-">>)
  /\ parse_index_md(Delivered(world, repo)).found

\* C20: fetch_owasp_projects returns whatever the remote source does, and
\* skips what fails and nothing else.  The result has one record for each
\* listed "www-project-" repository whose document is delivered and gives
\* metadata with a title, in the order of the listing, with the title of
\* that document and the name and the stars of that repository; a listing
\* that fails gives the empty list.
C20_FetchSkipsOnlyFailures ==
  gDone =>
    LET remaining == SelectSeq(Listed(gWorld), LAMBDA repo : Yields(gWorld, repo))
    IN  /\ Len(gResult) = Len(remaining)
        /\ \A i \in 1..Len(remaining) :
             /\ gResult[i][K_repo] = remaining[i].name
             /\ gResult[i][K_stars] = remaining[i].stargazers_count
             /\ gResult[i][K_title]
                  = parse_index_md(Delivered(gWorld, remaining[i])).metadata[K_title]
             /\ gResult[i][K_title] # <<>>

\* of three listed repositories the one in the middle fails (the request
\* for its document raises) and the other two are returned, the second of
\* them from the master branch
C20_Witness ==
  /\ gDone
  /\ Listed(gWorld) = <<Repo_Zap, Repo_Bad, Repo_Asvs>>
  /\ DocOf(gWorld, Repo_Bad, "main").outcome = "raises"
  /\ DocOf(gWorld, Repo_Asvs, "main").outcome = "ok"
  /\ DocOf(gWorld, Repo_Asvs, "main").status = 404
  /\ Len(gResult) = 2
  /\ gResult[1][K_repo] = Repo_Zap.name
  /\ gResult[2][K_repo] = Repo_Asvs.name

(***************************************************************************)
(* parse_index_md on the documents of a repository: the opening line "---",  *)
(* some lines of a metadata block, the closing line "---", and the text of  *)
(* the page, which has a rule "---" of its own.                             *)
(***************************************************************************)
\* lines in the block of one document
MaxLines == 3

BlockLines ==
  ("title" :> <<"t", "i", "t", "l", "e", ":", " ", "X">>)
    @@ ("title_padded" :> <<" ", " ", "t", "i", "t", "l", "e", " ", ":", " ", " ", "O", "W", "A", "S", "P", " ", "Z", "A", "P", " ", " ">>)
    @@ ("level" :> <<"l", "e", "v", "e", "l", ":", " ", "3">>)
    @@ ("level_padded" :> <<"l", "e", "v", "e", "l", ":", " ", " ", "2", " ">>)
    @@ ("tags" :> <<"t", "a", "g", "s", ":", " ", "a", ",", " ", "b">>)
    @@ ("tags_one" :> <<"t", "a", "g", "s", ":", "j", "u", "i", "c", "e", "s", "h", "o", "p", " ">>)
    @@ ("type" :> <<"t", "y", "p", "e", ":", " ", "t", "o", "o", "l">>)
    @@ ("pitch" :> <<"p", "i", "t", "c", "h", ":", " ", "f", "a", "s", "t", ":", " ", "s", "i", "m", "p", "l", "e">>)

TitleLines == {"title", "title_padded"}

\* the blocks: lines of BlockLines, none twice, a title among them
Blocks ==
  {b \in SeqsUpTo(DOMAIN BlockLines, MaxLines) :
     /\ \A i, j \in DOMAIN b : i # j => b[i] # b[j]
     /\ \E i \in DOMAIN b : b[i] \in TitleLines}

PageText == <<"\n", "#", " ", "A", "b", "o", "u", "t", "\n", "-", "-", "-", "\n", "m", "o", "r", "e", "\n">>

DocumentOf(block) ==
  <<"-", "-", "-", "\n">> \o Join(<<"\n">>, [i \in DOMAIN block |-> BlockLines[block[i]]])
    \o <<"\n", "-", "-", "-">> \o PageText

ParseInit ==
  /\ pLines \in Blocks
  /\ pShape = "whole"
  /\ pContent = DocumentOf(pLines)
  /\ pResult = NoMetadata
  /\ pDone = FALSE

ApplyParse ==
  /\ ~pDone
  /\ pResult' = parse_index_md(pContent)
  /\ pDone' = TRUE
  /\ UNCHANGED <<pLines, pShape, pContent, walkVars, filterVars, fetchVars, workerVars>>

InitParse == ParseInit /\ WalkInit /\ FilterIdle /\ FetchIdle /\ WorkerInit

SpecParse == InitParse /\ [][ApplyParse]_vars

(***************************************************************************)
(* parse_index_md on any document: blocks with or without a title, with a   *)
(* level that is no integer, and documents that lack the opening "---", or  *)
(* the closing one, or are empty.                                           *)
(***************************************************************************)
FaultyLines ==
  ("title_empty" :> <<"t", "i", "t", "l", "e", ":", " ", " ">>)
    @@ ("level_word" :> <<"l", "e", "v", "e", "l", ":", " ", "h", "i", "g", "h">>)
    @@ ("level_float" :> <<"l", "e", "v", "e", "l", ":", " ", "3", ".", "5">>)

AnyLines == BlockLines @@ FaultyLines

AnyBlocks ==
  {b \in SeqsUpTo(DOMAIN AnyLines, MaxLines) : \A i, j \in DOMAIN b : i # j => b[i] # b[j]}

Shapes == {"whole", "no_opening", "unterminated", "empty"}

\* the text of a page that has no "---" in it
PlainText == <<"\n", "#", " ", "A", "b", "o", "u", "t", "\n", "m", "o", "r", "e", "\n">>

Shaped(block, shape) ==
  LET lines == Join(<<"\n">>, [i \in DOMAIN block |-> AnyLines[block[i]]])
  IN  IF shape = "whole" THEN <<"-", "-", "-", "\n">> \o lines \o <<"\n", "-", "-", "-">> \o PageText
      ELSE IF shape = "no_opening" THEN lines \o <<"\n", "-", "-", "-">> \o PageText
      ELSE IF shape = "unterminated" THEN <<"-", "-", "-", "\n">> \o lines \o PlainText
      ELSE <<>>

ParseAnyInit ==
  /\ pLines \in AnyBlocks
  /\ pShape \in Shapes
  /\ pShape = "empty" => pLines = <<>>
  /\ pContent = Shaped(pLines, pShape)
  /\ pResult = NoMetadata
  /\ pDone = FALSE

InitParseAny == ParseAnyInit /\ WalkInit /\ FilterIdle /\ FetchIdle /\ WorkerInit

SpecParseAny == InitParseAny /\ [][ApplyParse]_vars

\* what each line of the pool says: its key, and its value trimmed, as a
\* number for level and as the list of its trimmed parts for tags
Says ==
  ("title" :> [key |-> <<"t", "i", "t", "l", "e">>, value |-> <<"X">>])
    @@ ("title_padded" :> [key |-> <<"t", "i", "t", "l", "e">>, value |-> <<"O", "W", "A", "S", "P", " ", "Z", "A", "P">>])
    @@ ("level" :> [key |-> <<"l", "e", "v", "e", "l">>, value |-> 3])
    @@ ("level_padded" :> [key |-> <<"l", "e", "v", "e", "l">>, value |-> 2])
    @@ ("tags" :> [key |-> <<"t", "a", "g", "s">>, value |-> <<<<"a">>, <<"b">>>>])
    @@ ("tags_one" :> [key |-> <<"t", "a", "g", "s">>, value |-> <<<<"j", "u", "i", "c", "e", "s", "h", "o", "p">>>>])
    @@ ("type" :> [key |-> <<"t", "y", "p", "e">>, value |-> <<"t", "o", "o", "l">>])
    @@ ("pitch" :> [key |-> <<"p", "i", "t", "c", "h">>, value |-> <<"f", "a", "s", "t", ":", " ", "s", "i", "m", "p", "l", "e">>])

\* the last line of a block that has this key
LastWith(block, key) ==
  CHOOSE i \in DOMAIN block :
    /\ Says[block[i]].key = key
    /\ \A j \in DOMAIN block : Says[block[j]].key = key => j <= i

Init == WorkerInit /\ WalkInit /\ FilterIdle /\ FetchIdle /\ ParseIdle

\* the conversations: direct messages and button clicks, handled by two
\* tasks, with the clock standing still
Next ==
  \/ \E t \in Tasks : ReceiveMessage(t)
  \/ \E t \in Tasks : ReceiveAction(t)
  \/ \E t \in Tasks : SelectionGet(t)
  \/ \E t \in Tasks : SelectionPut(t)
  \/ \E t \in Tasks : CacheGet(t)
  \/ \E t \in Tasks : Fetch(t)
  \/ \E t \in Tasks : CachePut(t)
  \/ \E t \in Tasks : SendDm(t)
  \/ \E t \in Tasks : StatsGet(t)
  \/ \E t \in Tasks : StatsPut(t)

Spec == Init /\ [][Next]_vars

\* the catalog cache: the scheduled refresh and GET /api/projects, handled
\* by two tasks, with the clock and the store's expiry
NextCache ==
  \/ Tick
  \/ ExpireCache
  \/ \E t \in Tasks : ReceiveScheduled(t)
  \/ \E t \in Tasks : ReceiveProjects(t)
  \/ \E t \in Tasks : CacheGet(t)
  \/ \E t \in Tasks : Fetch(t)
  \/ \E t \in Tasks : CachePut(t)

SpecCache == Init /\ [][NextCache]_vars

\* the catalog cache with a store whose calls may raise
NextCacheFaults ==
  \/ NextCache
  \/ \E t \in Tasks : StoreRaises(t)

SpecCacheFaults == Init /\ [][NextCacheFaults]_vars

\* block actions with any payload, handled one after the other
NextPayload ==
  \/ ReceivePayload(1)
  \/ SelectionGet(1)
  \/ SelectionPut(1)
  \/ CacheGet(1)
  \/ Fetch(1)
  \/ CachePut(1)
  \/ SendDm(1)
  \/ StatsGet(1)
  \/ StatsPut(1)

SpecPayload == Init /\ [][NextPayload]_vars

\* the conversations of Next, with each request handled before the next
\* one comes
NextSolo ==
  \/ ReceiveMessage(1)
  \/ ReceiveAction(1)
  \/ SelectionGet(1)
  \/ SelectionPut(1)
  \/ CacheGet(1)
  \/ Fetch(1)
  \/ CachePut(1)
  \/ SendDm(1)
  \/ StatsGet(1)
  \/ StatsPut(1)

SpecSolo == Init /\ [][NextSolo]_vars

\* direct messages and clicks on any button the worker sends, handled by
\* two tasks
NextClicks ==
  \/ \E t \in Tasks : ReceiveText(t)
  \/ \E t \in Tasks : ReceiveClick(t)
  \/ \E t \in Tasks : SelectionGet(t)
  \/ \E t \in Tasks : SelectionPut(t)
  \/ \E t \in Tasks : CacheGet(t)
  \/ \E t \in Tasks : Fetch(t)
  \/ \E t \in Tasks : CachePut(t)
  \/ \E t \in Tasks : SendDm(t)
  \/ \E t \in Tasks : StatsGet(t)
  \/ \E t \in Tasks : StatsPut(t)

SpecClicks == Init /\ [][NextClicks]_vars

\* the event callbacks, handled by two tasks
NextEvents ==
  \/ \E t \in Tasks : ReceiveEvent(t)
  \/ \E t \in Tasks : SendDm(t)

SpecEvents == Init /\ [][NextEvents]_vars

\* the catalog cache with the two GET requests of the dashboard
NextApi ==
  \/ NextCache
  \/ \E t \in Tasks : ReceiveStats(t)
  \/ \E t \in Tasks : ApiStatsGet(t)

SpecApi == Init /\ [][NextApi]_vars

\* the conversations of two users, each with a task of its own, and a
\* store whose calls may raise
NextDuo ==
  \/ ReceiveMessageOf(1, "U1")
  \/ ReceiveMessageOf(2, "U2")
  \/ ReceiveActionOf(1, "U1")
  \/ ReceiveActionOf(2, "U2")
  \/ \E t \in Tasks : SelectionGet(t)
  \/ \E t \in Tasks : SelectionPut(t)
  \/ \E t \in Tasks : CacheGet(t)
  \/ \E t \in Tasks : Fetch(t)
  \/ \E t \in Tasks : CachePut(t)
  \/ \E t \in Tasks : SendDm(t)
  \/ \E t \in Tasks : StatsGet(t)
  \/ \E t \in Tasks : StatsPut(t)
  \/ \E t \in Tasks : StoreRaises(t)

SpecDuo == Init /\ [][NextDuo]_vars

\* the conversations of NextSolo with a running clock and the expiry of
\* the records
NextExpiry ==
  \/ Tick
  \/ ExpireConversation
  \/ ReceiveMessage(1)
  \/ ReceiveAction(1)
  \/ SelectionGet(1)
  \/ SelectionPut(1)
  \/ CacheGet(1)
  \/ Fetch(1)
  \/ CachePut(1)
  \/ SendDm(1)
  \/ StatsGet(1)
  \/ StatsPut(1)

SpecExpiry == Init /\ [][NextExpiry]_vars

\* the conversations of NextSolo with the signature check in front and a
\* running clock
NextSigned ==
  \/ Tick
  \/ ReceiveSigned(1)
  \/ SelectionGet(1)
  \/ SelectionPut(1)
  \/ CacheGet(1)
  \/ Fetch(1)
  \/ CachePut(1)
  \/ SendDm(1)
  \/ StatsGet(1)
  \/ StatsPut(1)

SpecSigned == Init /\ [][NextSigned]_vars

(***************************************************************************)
(* The catalog cache.                                                       *)
(***************************************************************************)
\* task t takes the step that leaves the place pc
Leaves(t, pc) == task[t].pc = pc /\ task'[t].pc # pc

HitLog == <<"cache_get">>
MissLog == <<"cache_get", "fetch", "cache_put">>

\* C3: get_cached_projects, called for GET /api/projects: when the slot
\* holds a catalog whose age (now minus its timestamp) is below 24 hours,
\* the call returns that catalog, fetches nothing and leaves the store as it
\* is; when the slot is empty or the age is 24 hours or more, the call goes
\* on to fetch, fetches once, puts what it fetched with the time of the put
\* as timestamp, and returns what it fetched.
C3_CacheWithinTtl ==
  [][\A t \in Tasks :
       task[t].kind = "api_projects" =>
         /\ Leaves(t, "cache_get") =>
              IF kvCache.present /\ now - kvCache.value.timestamp < 24 * 60 * 60
                THEN /\ task'[t].pc = "done"
                     /\ task'[t].body = kvCache.value.projects
                     /\ task'[t].log = HitLog
                     /\ kvCache' = kvCache
                ELSE /\ task'[t].pc = "fetch"
                     /\ task'[t].fetches = 0
                     /\ kvCache' = kvCache
         /\ Leaves(t, "fetch") =>
              /\ task'[t].pc = "cache_put"
              /\ task'[t].fetches = 1
              /\ kvCache' = kvCache
         /\ Leaves(t, "cache_put") =>
              /\ task[t].fetches = 1
              /\ kvCache'.present
              /\ kvCache'.value = [timestamp |-> now, projects |-> task[t].projects]
              /\ task'[t].pc = "done"
              /\ task'[t].body = task[t].projects
              /\ task'[t].log = MissLog]_vars

\* a call past the time to live has fetched, put and returned the catalog,
\* while an earlier call was answered from the cache
C3_Witness ==
  /\ now >= CACHE_TTL_SECONDS
  /\ kvCache.present
  /\ kvCache.value.timestamp = now
  /\ task[1].kind = "api_projects" /\ task[1].pc = "done"
  /\ task[1].log = MissLog
  /\ task[1].body = kvCache.value.projects
  /\ task[2].kind = "api_projects" /\ task[2].pc = "done"
  /\ task[2].log = HitLog

(***************************************************************************)
(* The conversation state.                                                  *)
(***************************************************************************)
SelectionsOf(entry) == IF entry.present THEN entry.value.selections ELSE <<>>

\* the call of task t runs without interference: the entry it read is the
\* entry the store holds when it puts
Uninterfered(t) == task[t].existing = kvConv[task[t].user]

\* task t has put its answer and still holds the entry it had read
HasPut(t) == task[t].pc \in {"send", "cache_get"} /\ task[t].puts = 1

\* C4: store_user_selection is idempotent on the selections: a call with a
\* node key and a value that runs right after a call with the same key and
\* value (the selections it reads hold that value at that key) leaves the
\* selections as that first call left them.
C4_SelectionIdempotent ==
  [][\A t \in Tasks :
       (/\ Leaves(t, "sel_put")
        /\ Uninterfered(t)
        /\ task[t].button.current \in DOMAIN SelectionsOf(kvConv[task[t].user])
        /\ SelectionsOf(kvConv[task[t].user])[task[t].button.current]
             = task[t].button.selected)
       => SelectionsOf(kvConv'[task[t].user]) = SelectionsOf(kvConv[task[t].user])]_vars

\* a second call with the same key and value has put
C4_Witness ==
  \E t \in Tasks :
    /\ HasPut(t)
    /\ task[t].button.current \in DOMAIN SelectionsOf(task[t].existing)
    /\ SelectionsOf(task[t].existing)[task[t].button.current] = task[t].button.selected
    /\ SelectionsOf(kvConv[task[t].user]) = SelectionsOf(task[t].existing)
    /\ Cardinality(DOMAIN SelectionsOf(kvConv[task[t].user])) >= 1

\* C5: store_user_selection is a read-merge-write: after a call that runs
\* without interference the selections hold the value at the node key, every
\* other node key that was there keeps its value, and no other key is added.
C5_SelectionReadMergeWrite ==
  [][\A t \in Tasks :
       (Leaves(t, "sel_put") /\ Uninterfered(t)) =>
         LET before == SelectionsOf(kvConv[task[t].user])
             after == SelectionsOf(kvConv'[task[t].user])
             key == task[t].button.current
         IN  /\ kvConv'[task[t].user].present
             /\ DOMAIN after = DOMAIN before \cup {key}
             /\ after[key] = task[t].button.selected
             /\ \A k \in DOMAIN before \ {key} : after[k] = before[k]]_vars

\* a later answer for a node has replaced the earlier answer, next to the
\* answer for another node, which is kept
C5_Witness ==
  \E t \in Tasks :
    LET before == SelectionsOf(task[t].existing)
        after == SelectionsOf(kvConv[task[t].user])
        key == task[t].button.current
    IN  /\ HasPut(t)
        /\ key \in DOMAIN before
        /\ before[key] # task[t].button.selected
        /\ after[key] = task[t].button.selected
        /\ \E k \in DOMAIN before \ {key} : after[k] = before[k]

\* C6: whatever the interleaving of the calls of a user, each put leaves the
\* selections that the putting call had read with its own answer set, so the
\* last writer's answer is there; and every stored entry is a value that
\* some call wrote for that node key.
C6_LastWriterWins ==
  [][/\ \A t \in Tasks :
          Leaves(t, "sel_put") =>
            LET read == SelectionsOf(task[t].existing)
                after == SelectionsOf(kvConv'[task[t].user])
                key == task[t].button.current
            IN  /\ DOMAIN after = DOMAIN read \cup {key}
                /\ after[key] = task[t].button.selected
                /\ \A k \in DOMAIN read \ {key} : after[k] = read[k]
     /\ \A u \in Users : \A k \in DOMAIN SelectionsOf(kvConv'[u]) :
          <<u, k, SelectionsOf(kvConv'[u])[k]>> \in answered']_vars

\* two calls of a user have read the same entry and both have put: the
\* store holds the answer of the one and the answer of the other is lost
C6_Witness ==
  /\ HasPut(1) /\ HasPut(2)
  /\ task[1].user = task[2].user
  /\ task[1].existing = task[2].existing
  /\ task[1].button.current = task[2].button.current
  /\ task[1].button.selected # task[2].button.selected
  /\ \E t \in Tasks :
       SelectionsOf(kvConv[task[t].user])
         = (task[t].button.current :> task[t].button.selected)
             @@ SelectionsOf(task[t].existing)

(***************************************************************************)
(* The search statistics.                                                   *)
(***************************************************************************)
StatsOf(entry) ==
  IF entry.present THEN entry.value ELSE [total |-> 0, categories |-> <<>>]

\* task t is in show_matching_projects
Searching(t) ==
  task[t].pc \in {"send", "stats_get", "stats_put"}
    /\ task[t].message \in {"results", "no_results"}

\* C7: the terminal step, end to end.  The value of an option whose next is
\* "end" is the category that filter_projects is given, with the projects
\* get_cached_projects returned; a click on such an option that is answered
\* with 200 has recorded its search; and record_search, run without
\* interference, raises the total by one and the counter of that category by
\* one (from 0 when there was none) and leaves the other counters alone.
C7_TerminalStep ==
  [][\A t \in Tasks :
       /\ Leaves(t, "sel_put") =>
            (task'[t].pc = "cache_get" <=> task[t].button.next = "end")
       /\ Searching(t) =>
            /\ task[t].button.next = "end"
            /\ task[t].category = task[t].button.selected
            /\ task[t].matching = filter_projects(task[t].projects, task[t].button.selected)
       /\ (task'[t].pc = "done" /\ task'[t].button.next = "end" /\ task'[t].status = 200)
            => \E i \in DOMAIN task'[t].log : task'[t].log[i] = "stats_put"
       /\ (Leaves(t, "stats_put") /\ task[t].stats = kvStats) =>
            LET before == StatsOf(kvStats)
                after == StatsOf(kvStats')
                tag == task[t].button.selected
            IN  /\ kvStats'.present
                /\ after.total = before.total + 1
                /\ DOMAIN after.categories = DOMAIN before.categories \cup {tag}
                /\ after.categories[tag] = Get(before.categories, tag, 0) + 1
                /\ \A c \in DOMAIN before.categories \ {tag} :
                     after.categories[c] = before.categories[c]]_vars

\* start -> "tool" -> tool_type -> "code_analysis", twice: the second search
\* is recorded on top of the first
C7_Witness ==
  /\ kvStats.present
  /\ kvStats.value.total = 2
  /\ kvStats.value.categories = ("code_analysis" :> 2)
  /\ \E t \in Tasks :
       /\ task[t].pc = "done" /\ task[t].status = 200
       /\ task[t].button = Button("tool_type", [text |-> "", value |-> "code_analysis", next |-> "end"])
       /\ task[t].log[Len(task[t].log)] = "stats_put"

\* C8: in every step, also when calls of record_search interleave, the
\* stored total does not decrease and no counter of a category decreases or
\* goes away.
C8_StatsMonotone ==
  [][/\ StatsOf(kvStats').total >= StatsOf(kvStats).total
     /\ \A c \in DOMAIN StatsOf(kvStats).categories :
          /\ c \in DOMAIN StatsOf(kvStats').categories
          /\ StatsOf(kvStats').categories[c] >= StatsOf(kvStats).categories[c]]_vars

(***************************************************************************)
(* Payloads that do not fit the graph.                                      *)
(***************************************************************************)
\* the places of a task inside show_matching_projects and record_search
SearchPlaces == {"cache_get", "fetch", "cache_put", "stats_get", "stats_put"}

\* the task has called send_dm
HasSent(tk) == \E i \in DOMAIN tk.log : tk.log[i] \in {"dm", "dm_not_ok", "dm_raised"}

\* the payload names a node key that the graph does not have
UnknownNode(b) ==
  /\ b.action_id = "flowchart" /\ b.json
  /\ \/ b.current \notin QuestionKeys
     \/ b.next \notin QuestionKeys \cup {EndMarker}

\* the payload's selection is no option of its current node
InvalidSelection(b) ==
  /\ b.action_id = "flowchart" /\ b.json
  /\ b.current \in QuestionKeys
  /\ b.selected \notin {OptionsOf(b.current)[i].value : i \in 1..Len(OptionsOf(b.current))}

\* C13: a flowchart action that names a node key the graph does not have,
\* as its current node or as its next node, resets the user to start: the
\* start question is what the action sends, and the action runs no search.
C13_UnknownNodeResets ==
  \A t \in Tasks :
    UnknownNode(task[t].button) =>
      /\ task[t].pc \notin SearchPlaces
      /\ task[t].pc = "send" => task[t].message = StartKey
      /\ task[t].pc = "done" => HasSent(task[t])

\* C14: a flowchart action whose selection is no option of its current node
\* resets the user to start: the value is not stored in the user's
\* selections, is not used as a category and is not counted in the stats.
C14_InvalidSelectionRejected ==
  \A t \in Tasks :
    InvalidSelection(task[t].button) =>
      LET b == task[t].button
          stored == SelectionsOf(kvConv[task[t].user])
      IN  /\ ~(b.current \in DOMAIN stored /\ stored[b.current] = b.selected)
          /\ task[t].pc \notin SearchPlaces
          /\ task[t].category # b.selected
          /\ b.selected \notin DOMAIN StatsOf(kvStats).categories
          /\ task[t].pc = "send" => task[t].message = StartKey

(***************************************************************************)
(* Going back.                                                              *)
(***************************************************************************)
BackOptions(k) == {i \in 1..Len(OptionsOf(k)) : OptionsOf(k)[i].value = "back"}

\* C15: "back" is an option like any other, whose next is "start", and
\* there is no stack of earlier answers.  Every node but start has it; a
\* click on it stores "back" as the answer of its node, goes on to send the
\* start question, and runs no search and no update of the stats; and with
\* the answers handled one after the other the stored selections hold, for
\* each node, the answer last given at that node and nothing else.
C15_BackIsAnOrdinaryEdge ==
  [][/\ \A k \in QuestionKeys \ {StartKey} : BackOptions(k) # {}
     /\ \A k \in QuestionKeys : \A i \in BackOptions(k) :
          k # StartKey /\ OptionsOf(k)[i].next = StartKey
     /\ \A t \in Tasks :
          (task[t].button.action_id = "flowchart" /\ task[t].button.selected = "back") =>
            /\ task[t].pc \notin SearchPlaces
            /\ Leaves(t, "sel_put") =>
                 /\ SelectionsOf(kvConv'[task[t].user])[task[t].button.current] = "back"
                 /\ task'[t].pc = "send"
                 /\ task'[t].message = StartKey
                 /\ kvStats' = kvStats
     /\ \A u \in ActiveUsers :
          kvConv'[u].present => SelectionsOf(kvConv'[u]) = recent'[u]]_vars

\* "tool", then "back" at tool_type: the answer "back" is stored next to
\* the answer at start, the start question is to be sent again, and no
\* search was counted
C15_Witness ==
  /\ HasPut(1)
  /\ task[1].button.current = "tool_type"
  /\ task[1].button.selected = "back"
  /\ task[1].pc = "send" /\ task[1].message = StartKey
  /\ SelectionsOf(kvConv[task[1].user]) = ("start" :> "tool") @@ ("tool_type" :> "back")
  /\ ~kvStats.present

(***************************************************************************)
(* The cache slot as a whole.                                               *)
(***************************************************************************)
\* what a run of fetch_owasp_projects can return
FetchOutputs == {fetch_owasp_projects(RemoteWorlds[w]) : w \in FetchWorlds}

\* task t ends in this step with an exception
Fails(t) == task[t].pc # "done" /\ task'[t].pc = "done" /\ task'[t].status = 500

RefreshLog == <<"fetch", "cache_put">>

\* C18: the scheduled refresh does not look at the time to live.  A run of
\* refresh_project_cache starts with the fetch whatever the slot holds,
\* fetches once, and puts what it fetched with the time of the put, to be
\* kept for 24 hours; a call of get_cached_projects that finds that catalog
\* less than 24 hours after the put returns it and does not fetch.
C18_RefreshIgnoresTtl ==
  [][\A t \in Tasks :
       /\ (task'[t].kind = "scheduled" /\ task[t].pc \in {"idle", "done"}
             /\ task'[t].pc \notin {"idle", "done"})
            => task'[t].pc = "fetch" /\ task'[t].fetches = 0
       /\ task[t].kind = "scheduled" =>
            /\ task[t].pc \in {"fetch", "cache_put", "done"}
            /\ Leaves(t, "fetch") => task'[t].pc = "cache_put" /\ task'[t].fetches = 1
            /\ Leaves(t, "cache_put") =>
                 /\ task[t].fetches = 1
                 /\ kvCache' = [present |-> TRUE,
                                value |-> [timestamp |-> now, projects |-> task[t].projects],
                                expires |-> now + 24 * 60 * 60]
                 /\ task'[t].pc = "done" /\ task'[t].log = RefreshLog
       /\ (task[t].kind = "api_projects" /\ Leaves(t, "cache_get")
             /\ kvCache.present /\ now < kvCache.value.timestamp + 24 * 60 * 60)
            => /\ task'[t].body = kvCache.value.projects
               /\ task'[t].log = HitLog]_vars

\* a refresh has put a catalog while the one before it was less than 24
\* hours old, and a call of get_cached_projects was then answered with it
C18_Witness ==
  /\ task[1].kind = "scheduled" /\ task[1].pc = "done" /\ task[1].log = RefreshLog
  /\ task[2].kind = "api_projects" /\ task[2].pc = "done" /\ task[2].log = HitLog
  /\ kvCache.present
  /\ kvCache.value.timestamp = CONVERSATION_TTL_SECONDS \div 2
  /\ now = CACHE_TTL_SECONDS
  /\ task[2].body = kvCache.value.projects
  /\ nReq = 4

\* C19: refreshes that race.  Whatever the slot holds by then, the put
\* of a refresh leaves in the slot the catalog that this refresh fetched
\* with the time of this put, so after the last put the slot holds the last
\* writer's; the put changes nothing for the other tasks; and a call of
\* get_cached_projects that fetched returns the catalog it fetched itself.
C19_RefreshLastWriteWins ==
  [][\A t \in Tasks :
       (Leaves(t, "cache_put") /\ ~Fails(t)) =>
         /\ kvCache'.present
         /\ kvCache'.value.projects = task[t].projects
         /\ kvCache'.value.timestamp = now
         /\ \A o \in Tasks \ {t} : task'[o] = task[o]
         /\ task[t].kind = "api_projects" => task'[t].body = task[t].projects]_vars

\* a call of get_cached_projects and a scheduled refresh have both fetched
\* and put; the call has returned its own catalog and the slot holds the
\* other one, put last
C19_Witness ==
  \E t \in Tasks : \E o \in Tasks \ {t} :
    /\ task[t].kind = "api_projects" /\ task[t].pc = "done" /\ task[t].log = MissLog
    /\ task[o].kind = "scheduled" /\ task[o].pc = "done" /\ task[o].log = RefreshLog
    /\ kvCache.present
    /\ task[t].body # kvCache.value.projects
    /\ nReq = 2

(***************************************************************************)
(* The signature check.                                                     *)
(***************************************************************************)
\* the numbers the timestamp texts of the requests are written for
PositiveTimestamps ==
  (<<"3", "0", "0">> :> 300) @@ (<<"3", "0", "1">> :> 301)
    @@ (<<"1", "4", "9", "9">> :> 1499) @@ (<<"1", "5", "0", "0">> :> 1500)

\* what Slack sends in the signature header of a request with this
\* timestamp header and this body
SlackSignature(request) ==
  [version |-> "v0",
   digest |-> [hex |-> TRUE, key |-> "signing_secret",
               message |-> <<"v0", request.headers.timestamp.text, request.body>>]]

HeaderMissing(request) ==
  ~request.headers.timestamp.present \/ ~request.headers.signature.present
SignatureMalformed(request) ==
  request.headers.signature.text.version # "v0" \/ ~request.headers.signature.text.digest.hex
TimestampInvalid(request) == request.headers.timestamp.text \notin DOMAIN PositiveTimestamps
TimestampOutOfWindow(request, time) ==
  LET sent == PositiveTimestamps[request.headers.timestamp.text]
  IN  sent > time + 5 * 60 \/ sent < time - 5 * 60
SignatureMismatch(request) == request.headers.signature.text # SlackSignature(request)

FailsCheck(request, time) ==
  \/ HeaderMissing(request)
  \/ SignatureMalformed(request)
  \/ TimestampInvalid(request)
  \/ TimestampOutOfWindow(request, time)
  \/ SignatureMismatch(request)

Takes(t) == task[t].pc \in {"idle", "done"} /\ nReq' = nReq + 1 /\ task'[t] # task[t]

\* C21: a request to /slack/events or /slack/interactivity whose signature
\* check fails (a header missing, a malformed signature, a timestamp that is
\* no positive number or lies more than five minutes off the clock on either
\* side, a signature that is not the one Slack makes for the request) is
\* answered 401 in the step that takes it: the handler has made no store
\* call, no fetch and no send, the three store slots and every user's
\* messages are as they were; and a request that fails none of the five is
\* not answered 401
C21_RejectedWithoutEffect ==
  [][\A t \in Tasks :
       Takes(t) =>
         IF FailsCheck(task'[t].request, now)
           THEN /\ task'[t].pc = "done"
                /\ task'[t].status = 401
                /\ task'[t].log = <<>>
                /\ task'[t].fetches = 0 /\ task'[t].puts = 0
                /\ UNCHANGED <<kvConv, kvCache, kvStats, inbox>>
           ELSE task'[t].status # 401]_vars

\* a request Slack signed with the right secret is turned away for its
\* timestamp alone, in a worker that holds a conversation and search counts
C21_Witness ==
  \E t \in Tasks :
    /\ task[t].status = 401
    /\ task[t].request.headers.signature.text = SlackSignature(task[t].request)
    /\ task[t].request.headers.timestamp.text = <<"3", "0", "0">>
    /\ now >= 1800
    /\ \E u \in Users : kvConv[u].present /\ inbox[u] # {}

(***************************************************************************)
(* Values that are no selection payload.                                    *)
(***************************************************************************)
\* the value of a flowchart button as lines 304-309 write it: a JSON object
\* with its current node, its selection and its next node
WellFormedPayload(b) ==
  b.json /\ b.object /\ "null" \notin {b.current, b.selected, b.next}

HasLogged(tk, what) == \E i \in DOMAIN tk.log : tk.log[i] = what

\* C22: a flowchart action whose value is no well-formed selection payload
\* (no JSON, JSON that is no object, an object without current, selected or
\* next) stores no selection, runs no search, writes no stats, sends the
\* start question and, unless the send itself raises, ends with 200.
C22_InvalidPayloadAborts ==
  \A t \in Tasks :
    (task[t].button.action_id = "flowchart" /\ ~WellFormedPayload(task[t].button)) =>
      /\ task[t].pc \notin {"sel_get", "sel_put"} \cup SearchPlaces
      /\ ~HasLogged(task[t], "conv_put")
      /\ ~HasLogged(task[t], "stats_put")
      /\ task[t].pc = "send" => task[t].message = StartKey
      /\ task[t].pc = "done" =>
           /\ HasSent(task[t])
           /\ ~HasLogged(task[t], "dm_raised") => task[t].status = 200

(***************************************************************************)
(* The order of the effects of a terminal selection.                        *)
(***************************************************************************)
\* the task handles a click on an option whose next is "end"
Terminal(tk) ==
  tk.button.action_id = "flowchart" /\ WellFormedPayload(tk.button) /\ tk.button.next = "end"

\* the first place of a step in the log of a task, 0 when it has none
FirstAt(tk, steps) ==
  LET at == {i \in DOMAIN tk.log : tk.log[i] \in steps}
  IN  IF at = {} THEN 0 ELSE CHOOSE i \in at : \A j \in at : i <= j

Sends == {"dm", "dm_not_ok", "dm_raised"}

\* step a is in the log, and before step b when b is there
Precedes(tk, a, b) ==
  /\ FirstAt(tk, a) > 0
  /\ FirstAt(tk, b) > 0 => FirstAt(tk, a) < FirstAt(tk, b)

\* C23: in the handling of a terminal selection the answer is put in the
\* conversation store before the catalog slot is read, the catalog is read
\* (and fetched and stored on a miss) before the result is sent, and the
\* search is written to the stats before the result is sent.
C23_OrderOfEffects ==
  \A t \in Tasks :
    Terminal(task[t]) =>
      /\ HasLogged(task[t], "cache_get") => Precedes(task[t], {"conv_put"}, {"cache_get"})
      /\ HasLogged(task[t], "fetch") => Precedes(task[t], {"fetch"}, Sends)
      /\ HasSent(task[t]) => Precedes(task[t], {"cache_get"}, Sends)
      /\ HasSent(task[t]) => Precedes(task[t], {"stats_put"}, Sends)

(***************************************************************************)
(* Sends that fail.                                                         *)
(***************************************************************************)
SendFailed(tk) == HasLogged(tk, "dm_not_ok") \/ HasLogged(tk, "dm_raised")

\* C24: a send that fails is tried once and no more, the request it is part
\* of still ends with 200, and the search of a terminal selection is still
\* written to the stats.
C24_SendFailureLoggedOnly ==
  \A t \in Tasks :
    SendFailed(task[t]) =>
      /\ Cardinality({i \in DOMAIN task[t].log : task[t].log[i] \in Sends}) = 1
      /\ task[t].pc # "send"
      /\ task[t].pc = "done" =>
           /\ task[t].status = 200
           /\ Terminal(task[t]) => HasLogged(task[t], "stats_put")

(***************************************************************************)
(* The two GET requests of the dashboard.                                   *)
(***************************************************************************)
\* C25: no step of a task that handles GET /api/stats or GET /api/projects
\* changes a record of the store or fetches the catalog, whatever the
\* catalog slot holds.
C25_ReadApiReadOnly ==
  [][\A t \in Tasks :
       (task[t].kind \in {"api_stats", "api_projects"} /\ task'[t] # task[t]
          /\ task[t].pc \notin {"idle", "done"}) =>
         /\ UNCHANGED <<kvConv, kvCache, kvStats>>
         /\ task'[t].fetches = task[t].fetches
         /\ task'[t].pc # "fetch"]_vars

(***************************************************************************)
(* Store calls that raise.                                                  *)
(***************************************************************************)
StoreSteps == {"conv_get", "conv_put", "cache_get", "cache_put", "stats_get", "stats_put"}

\* a store call of task t raises in this step
RaisesIn(t) ==
  /\ task[t].pc \in {"sel_get", "sel_put", "cache_get", "cache_put", "stats_get", "stats_put"}
  /\ Len(task'[t].log) = Len(task[t].log) + 1
  /\ task'[t].log[Len(task'[t].log)] = "raised"

\* C26: when a get or a put of the store raises in a request, the request
\* ends there with an error response: the step changes no record of the
\* store, sends nothing and leaves every other task as it was; the request
\* takes no step after it; and no store call of a request is made twice.
C26_StoreFailureFailsOneRequest ==
  [][\A t \in Tasks :
       /\ RaisesIn(t) =>
            /\ task'[t].pc = "done"
            /\ task'[t].status = 500
            /\ UNCHANGED <<kvConv, kvCache, kvStats, inbox>>
            /\ \A o \in Tasks \ {t} : task'[o] = task[o]
       /\ HasLogged(task[t], "raised") =>
            /\ task[t].pc = "done"
            /\ task[t].log[Len(task[t].log)] = "raised"
       /\ \A s \in StoreSteps :
            Cardinality({i \in DOMAIN task'[t].log : task'[t].log[i] = s}) <= 1]_vars

\* the put of an answer of U1 has raised after its get, and the answer that
\* U2 gave is in the store
C26_Witness ==
  \E t \in Tasks :
    /\ task[t].user = "U1"
    /\ task[t].log = <<"conv_get", "raised">>
    /\ task[t].status = 500
    /\ ~kvConv["U1"].present
    /\ kvConv["U2"].present

(***************************************************************************)
(* The records of different users.                                          *)
(***************************************************************************)
\* C27: with the tasks of different users interleaved in any way, a step
\* changes the record of a user only when it is the put of
\* store_user_selection of a task of that user, the get of a task reads the
\* record of its own user, and each user's record holds every answer the
\* user has stored, each node with its latest answer: nothing of it is
\* lost or changed by the other user's answers.
C27_IsolatedPerUser ==
  [][/\ \A u \in Users :
          kvConv'[u] # kvConv[u] =>
            \E t \in Tasks : task[t].user = u /\ Leaves(t, "sel_put")
     /\ \A t \in Tasks :
          Leaves(t, "sel_get") /\ task'[t].pc = "sel_put" =>
            task'[t].existing = kvConv[task[t].user]
     /\ \A u \in Users :
          /\ kvConv'[u].present => SelectionsOf(kvConv'[u]) = recent'[u]
          /\ ~kvConv'[u].present => recent'[u] = <<>>]_vars

\* the two users have answered at start, each while the other's answer was
\* being handled, and each record holds its user's answer
C27_Witness ==
  /\ kvConv["U1"].present /\ kvConv["U2"].present
  /\ SelectionsOf(kvConv["U1"]) = recent["U1"] /\ recent["U1"] # <<>>
  /\ SelectionsOf(kvConv["U2"]) = recent["U2"] /\ recent["U2"] # <<>>
  /\ task[1].pc = "send" /\ task[2].pc = "send"
  /\ HasLogged(task[1], "conv_put") /\ HasLogged(task[2], "conv_put")

(***************************************************************************)
(* No delete of a conversation.                                             *)
(***************************************************************************)
KeysOf(entry) == DOMAIN SelectionsOf(entry)

\* C28 as stated: no step of the core removes the record of a user or a
\* node key of its selections; the set of node keys in the record only
\* grows.
C28_KeysOnlyGrow ==
  [][\A u \in Users :
       kvConv[u].present =>
         /\ kvConv'[u].present
         /\ KeysOf(kvConv[u]) \subseteq KeysOf(kvConv'[u])]_vars

\* C28: no step of the core removes the record of a user, and the only step
\* that changes it is the put of store_user_selection of a task of that
\* user, which writes every node key its call had read and the node key of
\* its answer.  The node keys in the record grow with each put of a call
\* that had read the record as the store holds it; a put of a call that had
\* read before another put of the user leaves out the node keys that put
\* had added.
C28_NoExplicitDelete ==
  [][\A u \in Users :
       /\ kvConv[u].present => kvConv'[u].present
       /\ kvConv'[u] # kvConv[u] =>
            \E t \in Tasks :
              /\ task[t].user = u
              /\ Leaves(t, "sel_put")
              /\ KeysOf(kvConv'[u]) = KeysOf(task[t].existing) \cup {task[t].button.current}
              /\ Uninterfered(t) => KeysOf(kvConv[u]) \subseteq KeysOf(kvConv'[u])]_vars

\* the user has come to the end, has been sent the results and has clicked
\* start over, and the record still holds the two answers
C28_Witness ==
  \E t \in Tasks :
    /\ task[t].button.action_id = "start_over"
    /\ task[t].pc = "done"
    /\ "results" \in inbox[task[t].user]
    /\ KeysOf(kvConv[task[t].user]) = {"start", "tool_type"}

(***************************************************************************)
(* The expiry of a conversation.                                            *)
(***************************************************************************)
\* C29: every put of store_user_selection writes the record with the time
\* of the answer and an expiry one window of 3600 seconds after that time,
\* whatever expiry the record it read had; so a record in the store carries
\* the time of the user's latest answer, a get returns it at every time
\* less than 3600 seconds after that answer, and the store drops a record
\* only when 3600 seconds or more have passed since the latest answer.
C29_SlidingExpiry ==
  [][/\ \A t \in Tasks :
          Leaves(t, "sel_put") =>
            /\ kvConv'[task[t].user].present
            /\ kvConv'[task[t].user].value.last_updated = now
            /\ kvConv'[task[t].user].expires = now + 3600
     /\ \A u \in Users :
          /\ (kvConv[u].present /\ now < kvConv[u].value.last_updated + 3600) =>
               /\ kvConv'[u].present
               /\ Read(kvConv[u]) = kvConv[u]
          /\ (kvConv[u].present /\ ~kvConv'[u].present) =>
               now >= kvConv[u].value.last_updated + 3600]_vars

\* a record first written at time 0 and written again at time 1800 is in
\* the store and readable at time 3600, when the window of the first write
\* is over
C29_Witness ==
  /\ now = 3600
  /\ task[1].pc = "send"
  /\ task[1].existing.present /\ task[1].existing.value.last_updated = 0
  /\ kvConv["U1"].present /\ kvConv["U1"].value.last_updated = 1800
  /\ Read(kvConv["U1"]) = kvConv["U1"]

(***************************************************************************)
(* Documents without metadata.                                              *)
(***************************************************************************)
T_title == <<"t", "i", "t", "l", "e">>
T_level == <<"l", "e", "v", "e", "l">>

KeyOfLine ==
  [n \in DOMAIN BlockLines |-> Says[n].key]
    @@ ("title_empty" :> T_title) @@ ("level_word" :> T_level) @@ ("level_float" :> T_level)

\* the last line of the block with this key, 0 when there is none
LastLine(block, key) ==
  LET at == {i \in DOMAIN block : KeyOfLine[block[i]] = key}
  IN  IF at = {} THEN 0 ELSE CHOOSE i \in at : \A j \in at : j <= i

\* the block gives a title that is not empty (a later line of a key stands
\* for the key)
Titled(block) ==
  LastLine(block, T_title) # 0 /\ block[LastLine(block, T_title)] # "title_empty"

FullMatches ==
  SelectSeq(fProjects,
            LAMBDA p : FamilyAllows(fCategory, Lower(TypeOf(p))) /\ HasKeyword(fCategory, p))

Smaller(a, b) == IF a < b THEN a ELSE b

\* C32: the reply has a section for each of the first min(5, n) of the n
\* matching projects, in the order of the catalog, while the number in its
\* head line and the count handed to record_search are n.
C32_TopFiveOfAll ==
  fDone =>
    /\ fCount = Len(FullMatches)
    /\ Len(fReply.sections) = Smaller(5, Len(FullMatches))
    /\ \A i \in 1..Len(fReply.sections) :
         fReply.sections[i].title = FullMatches[i][K_title]
    /\ FullMatches # <<>> => fReply.found = Len(FullMatches)

\* six projects match, in two kinds that alternate; five are shown
C32_Witness ==
  /\ fDone
  /\ fCategory = "code_analysis"
  /\ fProjects = <<P_Scanner, P_TestTool, P_Scanner, P_TestTool, P_Scanner, P_TestTool>>
  /\ fReply.found = 6 /\ fCount = 6
  /\ Len(fReply.sections) = 5
  /\ fReply.sections[5].title = P_Scanner[K_title]

(***************************************************************************)
(* The stats record as a whole.                                             *)
(***************************************************************************)
RECURSIVE SumOfCounters(_)
SumOfCounters(categories) ==
  IF DOMAIN categories = {} THEN 0
  ELSE LET c == CHOOSE x \in DOMAIN categories : TRUE
       IN  categories[c]
             + SumOfCounters([x \in DOMAIN categories \ {c} |-> categories[x]])

\* C33: in every reachable state, under every interleaving of the
\* record_search calls of concurrent requests, the total of the stored stats
\* record is the sum of its per-category counters.
C33_TotalIsSumOfCategories ==
  StatsOf(kvStats).total = SumOfCounters(StatsOf(kvStats).categories)

\* two record_search calls have raced: both read before either put, and
\* both have put
C33_Witness ==
  /\ kvStats.present
  /\ \A t \in Tasks : HasLogged(task[t], "stats_put") /\ ~task[t].stats.present
  /\ StatsOf(kvStats).total = 1

(***************************************************************************)
(* What changes the stats record.                                           *)
(***************************************************************************)
\* the number of times a step is in the log of a task
TimesLogged(tk, what) == Cardinality({i \in DOMAIN tk.log : tk.log[i] = what})

\* the handler of task t returns in this step without having raised
Completes(t) ==
  task[t].pc # "done" /\ task'[t].pc = "done" /\ task'[t].status = 200

\* C34: the stats record changes only in the handling of a terminal
\* selection (a flowchart click whose next is "end"), where one search is
\* added to the record that was read; a handler that completes has recorded
\* exactly one search when it handled a terminal selection, whether or not
\* a project matched, and none when it handled start_flowchart, learn_more,
\* start_over, a text, a non-terminal answer or "back".
C34_OnlyTerminalSelectionsRecord ==
  [][/\ kvStats' # kvStats =>
          \E t \in Tasks :
            /\ Terminal(task[t])
            /\ task[t].pc = "stats_put" /\ task'[t].pc = "done"
            /\ StatsOf(kvStats').total = StatsOf(task[t].stats).total + 1
     /\ \A t \in Tasks :
          Completes(t) =>
            TimesLogged(task'[t], "stats_put") = IF Terminal(task'[t]) THEN 1 ELSE 0]_vars

\* a terminal selection that matched nothing, the catalog being empty, was
\* recorded, and a click on learn_more was answered beside it and left the
\* record as it was
C34_Witness ==
  /\ task[1].pc = "done" /\ task[1].status = 200 /\ Terminal(task[1])
  /\ kvCache.present /\ kvCache.value.projects = <<>>
  /\ HasLogged(task[1], "stats_put")
  /\ task[2].pc = "done" /\ task[2].button.action_id = "learn_more"
  /\ HasLogged(task[2], "dm")
  /\ StatsOf(kvStats).total = 1

(***************************************************************************)
(* The categories the graph hands to the matcher.                           *)
(***************************************************************************)
\* the values of the options of node k that lead to "end"
TerminalValues(k) ==
  {OptionsOf(k)[i].value : i \in {j \in 1..Len(OptionsOf(k)) : OptionsOf(k)[j].next = EndMarker}}

\* the values of the options of "start" that lead to node k
BranchesTo(k) ==
  {OptionsOf(StartKey)[i].value :
     i \in {j \in 1..Len(OptionsOf(StartKey)) : OptionsOf(StartKey)[j].next = k}}

\* the categories of the family that filter_projects tests for the type of
\* a top-level branch
FamilyOfBranch(branch) ==
  IF branch = "tool" THEN ToolCategories
  ELSE IF branch = "documentation" THEN DocCategories
  ELSE IF branch = "training" THEN TrainingCategories
  ELSE IF branch = "vulnerable_app" THEN VulnCategories
  ELSE {}

\* the category is one filter_projects has keywords for
HasKeywords(category) == Get(category_mappings, category, <<>>) # <<>>

\* C35: every value of an option that leads to "end" has a non-empty keyword
\* list in category_mappings and is in the family of the top-level branch
\* its node is offered under, and a walk along declared options that stands
\* at "end" came from a node all of whose terminal values are such: the
\* matcher is never given a category it has no keywords for.
C35_TerminalValuesAreMapped ==
  /\ \A k \in QuestionKeys : \A v \in TerminalValues(k) :
       /\ HasKeywords(v)
       /\ BranchesTo(k) # {}
       /\ \A branch \in BranchesTo(k) : v \in FamilyOfBranch(branch)
  /\ wnode = EndMarker =>
       LET k == wtrail[Len(wtrail) - 1]
       IN  /\ TerminalValues(k) # {}
           /\ \A v \in TerminalValues(k) :
                /\ HasKeywords(v)
                /\ \E i \in 1..(Len(wtrail) - 2) :
                     /\ wtrail[i] = StartKey
                     /\ \E branch \in BranchesTo(k) : v \in FamilyOfBranch(branch)

\* a walk that went back to "start" once and came to "end" through the
\* vulnerable-application branch
C35_Witness ==
  /\ wnode = EndMarker
  /\ Len(wtrail) >= 5
  /\ wtrail[Len(wtrail) - 1] = "vuln_app_type"
  /\ Cardinality(TerminalValues("vuln_app_type")) = 3

(***************************************************************************)
(* The refresh that fetched nothing.                                        *)
(***************************************************************************)
\* C36: the scheduled refresh whose fetch collected no project puts the
\* empty catalog with the time of the put as timestamp, whatever the slot
\* held; and while the slot holds an empty catalog younger than 24 hours, a
\* call of get_cached_projects returns the empty list, fetches nothing and
\* leaves the slot as it is.
C36_EmptyRefreshIsCached ==
  [][\A t \in Tasks :
       /\ (Leaves(t, "cache_put") /\ task[t].kind = "scheduled" /\ task[t].projects = <<>>)
            => /\ kvCache'.present
               /\ kvCache'.value.projects = <<>>
               /\ kvCache'.value.timestamp = now
               /\ kvCache'.expires = now + 24 * 60 * 60
       /\ (/\ Leaves(t, "cache_get")
           /\ kvCache.present
           /\ kvCache.value.projects = <<>>
           /\ now - kvCache.value.timestamp < 24 * 60 * 60)
            => /\ task'[t].pc = "done"
               /\ task'[t].body = <<>>
               /\ task'[t].log = HitLog
               /\ kvCache' = kvCache]_vars

\* the refresh has put an empty catalog, time has passed, and a call that
\* came while the refresh ran was then answered with the empty list from
\* the cache
C36_Witness ==
  /\ kvCache.present
  /\ kvCache.value.projects = <<>>
  /\ kvCache.value.timestamp < now
  /\ task[1].kind = "scheduled" /\ task[1].pc = "done"
  /\ task[1].log = <<"fetch", "cache_put">>
  /\ task[2].kind = "api_projects" /\ task[2].pc = "done"
  /\ task[2].log = HitLog
  /\ task[2].body = <<>>

(***************************************************************************)
(* Direct messages.                                                         *)
(***************************************************************************)
Blank == {" ", "\n", "\t", "\r"}

\* a text without the white space around it
RECURSIVE Trimmed(_)
Trimmed(s) ==
  IF s = <<>> THEN s
  ELSE IF Head(s) \in Blank THEN Trimmed(Tail(s))
  ELSE IF s[Len(s)] \in Blank THEN Trimmed(SubSeq(s, 1, Len(s) - 1))
  ELSE s

IsStartText(text) ==
  Trimmed(Lower(text))
    \in {<<"s","t","a","r","t">>, <<"h","e","l","p">>,
         <<"f","i","n","d"," ","p","r","o","j","e","c","t">>,
         <<"p","r","o","j","e","c","t","s">>}

DirectMessage(e) == e.type = "message" /\ e.channel_type = "im"
CarriesBotId(e) == e.bot_id.present /\ e.bot_id.text # <<>>

\* task t takes an event in this step
TakesEvent(t) == task[t].pc \in {"idle", "done"} /\ task'[t] # task[t]

\* C37: a direct-message event with a bot_id is answered at once, with no
\* message sent and nothing written; a direct message without one starts
\* the conversation exactly when its text, trimmed and lower-cased, is one
\* of "start", "help", "find project", "projects"; the started conversation
\* makes one attempt to send the start prompt, and no step of the handling
\* of an event writes conversation state, stats or the catalog cache.
C37_NoMessageLoop ==
  [][/\ \A t \in Tasks :
          /\ TakesEvent(t) =>
               LET e == task'[t].event
               IN  /\ (DirectMessage(e) /\ CarriesBotId(e))
                        => task'[t].pc = "done" /\ task'[t].log = <<>>
                   /\ (DirectMessage(e) /\ ~CarriesBotId(e))
                        => IF IsStartText(e.text)
                             THEN task'[t].pc = "send" /\ task'[t].message = StartKey
                             ELSE task'[t].pc = "done" /\ task'[t].log = <<>>
          /\ (task[t].pc = "send" /\ DirectMessage(task[t].event) /\ task'[t] # task[t])
               => /\ task'[t].pc = "done"
                  /\ task'[t].log \in {<<"dm">>, <<"dm_not_ok">>, <<"dm_raised">>}
                  /\ inbox' \in {inbox,
                                 [inbox EXCEPT ![task[t].user] = @ \cup {StartKey}]}
     /\ kvConv' = kvConv /\ kvStats' = kvStats /\ kvCache' = kvCache
     /\ inbox' # inbox =>
          \E t \in Tasks :
            /\ task[t].pc = "send" /\ task'[t].pc = "done"
            /\ ~(DirectMessage(task[t].event) /\ CarriesBotId(task[t].event))]_vars

\* " Start " of a user was answered with the start prompt, and the same
\* text with a bot_id, which came meanwhile, with nothing; the store is
\* empty
C37_Witness ==
  /\ task[1].pc = "done" /\ DirectMessage(task[1].event)
  /\ task[1].event.bot_id = NoBotId
  /\ task[1].event.text = <<" ", "S", "t", "a", "r", "t", " ">>
  /\ task[1].log = <<"dm">>
  /\ task[2].pc = "done" /\ DirectMessage(task[2].event)
  /\ task[2].event.bot_id = BotId(<<"B", "1">>)
  /\ task[2].event.text = <<" ", "S", "t", "a", "r", "t", " ">>
  /\ task[2].log = <<>>
  /\ inbox["U1"] = {StartKey}
  /\ \A u \in Users : ~kvConv[u].present
  /\ ~kvStats.present

=============================================================================
